---- MODULE Spec2Model ----
(***************************************************************************)
(* The interactive file manager (class FileManager): its tokenizer, its    *)
(* root-confinement path validator and its dispatch loop with the          *)
(* asynchronous command handlers, over a POSIX file system.                *)
(*                                                                         *)
(* Strings of the program are sequences of one-character strings, so that  *)
(* trim, toLowerCase, startsWith, path.resolve and path.dirname are        *)
(* computed character by character as the JavaScript code computes them.   *)
(***************************************************************************)
EXTENDS Integers, Sequences, FiniteSets, Bags, TLC

(***************************************************************************)
(* Strings                                                                 *)
(***************************************************************************)
UpperCaseLetters == <<"A","B","C","D","E","F","G","H","I","J","K","L","M",
                      "N","O","P","Q","R","S","T","U","V","W","X","Y","Z">>

LowerCaseLetters == <<"a","b","c","d","e","f","g","h","i","j","k","l","m",
                      "n","o","p","q","r","s","t","u","v","w","x","y","z">>

\* String.prototype.toLowerCase on one character
LowerChar(c) ==
    IF \E i \in 1..26 : UpperCaseLetters[i] = c
    THEN LowerCaseLetters[CHOOSE i \in 1..26 : UpperCaseLetters[i] = c]
    ELSE c

\* String.prototype.toLowerCase
ToLowerCase(s) == [i \in 1..Len(s) |-> LowerChar(s[i])]

\* String.prototype.startsWith
StartsWith(s, prefix) ==
    /\ Len(prefix) <= Len(s)
    /\ SubSeq(s, 1, Len(prefix)) = prefix

\* String.prototype.trim over the blank character
RECURSIVE TrimLeft(_)
TrimLeft(s) == IF s # <<>> /\ Head(s) = " " THEN TrimLeft(Tail(s)) ELSE s

RECURSIVE TrimRight(_)
TrimRight(s) ==
    IF s # <<>> /\ s[Len(s)] = " " THEN TrimRight(SubSeq(s, 1, Len(s) - 1)) ELSE s

Trim(s) == TrimRight(TrimLeft(s))

\* the concatenation of the strings of a sequence, sep between neighbours
RECURSIVE JoinWith(_, _)
JoinWith(parts, sep) ==
    IF parts = <<>> THEN <<>>
    ELSE IF Len(parts) = 1 THEN parts[1]
    ELSE parts[1] \o sep \o JoinWith(Tail(parts), sep)

(***************************************************************************)
(* The user name of the command line (getUserName.js)                      *)
(***************************************************************************)
USERNAME_COMMAND_LINE_ARG_NAME == <<"u","s","e","r","n","a","m","e">>
UNKNOWN_USERNAME == <<"U","n","k","n","o","w","n">>

\* String.prototype.split('='): the pieces between "=" characters
RECURSIVE SplitAtEquals(_, _)
SplitAtEquals(el, piece) ==
    IF el = <<>> THEN <<piece>>
    ELSE IF Head(el) = "=" THEN <<piece>> \o SplitAtEquals(Tail(el), <<>>)
    ELSE SplitAtEquals(Tail(el), Append(piece, Head(el)))

\* the test of line 13 accepting any number of "=" above zero
IsWrongArgument_fewerThanTwo(nameAndValue) ==
    \/ Len(nameAndValue) < 2
    \/ ~StartsWith(nameAndValue[1], <<"-","-">>)
    \/ Len(nameAndValue[1]) = 2

\* line 13: the argument is not of the form --name=value
IsWrongArgument(nameAndValue) ==
    \/ Len(nameAndValue) # 2
    \/ ~StartsWith(nameAndValue[1], <<"-","-">>)
    \/ Len(nameAndValue[1]) = 2

\* parseCommandLineArgs, lines 5-22: threw tells that line 14 was reached
parseCommandLineArgs(args) ==
    LET argsArray == SubSeq(args, 3, Len(args))
        parts(i)  == SplitAtEquals(argsArray[i], <<>>)
    IN  IF \E i \in 1..Len(argsArray) : IsWrongArgument(parts(i))
        THEN [threw |-> TRUE, argsArray |-> <<>>]
        ELSE [threw |-> FALSE,
              argsArray |-> [i \in 1..Len(argsArray) |->
                               [name  |-> SubSeq(parts(i)[1], 3, Len(parts(i)[1])),
                                value |-> parts(i)[2]]]]

\* checkParsedCommandLineArgs, lines 24-27: TRUE when it throws
checkParsedCommandLineArgs(argsArray) ==
    \/ Len(argsArray) # 1
    \/ argsArray[1].name # USERNAME_COMMAND_LINE_ARG_NAME

\* getUserName, lines 29-33: threw, or the value returned
getUserName(args) ==
    LET parsed == parseCommandLineArgs(args) IN
    IF parsed.threw \/ checkParsedCommandLineArgs(parsed.argsArray)
    THEN [threw |-> TRUE, value |-> <<>>]
    ELSE [threw |-> FALSE,
          value |-> IF parsed.argsArray[1].value # <<>>
                    THEN parsed.argsArray[1].value ELSE UNKNOWN_USERNAME]

\* the entry script, part_000 lines 5-10: the error is caught and printed,
\* the user name stays the unknown one
StartupUserName(args) ==
    IF getUserName(args).threw THEN UNKNOWN_USERNAME ELSE getUserName(args).value

(***************************************************************************)
(* node:path, POSIX flavour                                                *)
(***************************************************************************)
\* the pieces of p between "/" characters (empty pieces included)
RECURSIVE SplitPath(_, _)
SplitPath(p, piece) ==
    IF p = <<>> THEN <<piece>>
    ELSE IF Head(p) = "/" THEN <<piece>> \o SplitPath(Tail(p), <<>>)
    ELSE SplitPath(Tail(p), Append(piece, Head(p)))

\* normalizeString: drops "" and ".", lets ".." remove the segment before it
RECURSIVE NormalizeSegments(_, _)
NormalizeSegments(pieces, acc) ==
    IF pieces = <<>> THEN acc
    ELSE LET s == Head(pieces) IN
         IF s = <<>> \/ s = <<".">> THEN NormalizeSegments(Tail(pieces), acc)
         ELSE IF s = <<".", ".">>
              THEN NormalizeSegments(Tail(pieces),
                       IF acc = <<>> THEN acc ELSE SubSeq(acc, 1, Len(acc) - 1))
              ELSE NormalizeSegments(Tail(pieces), Append(acc, s))

\* the segments of an absolute path
Segments(p) == NormalizeSegments(SplitPath(p, <<>>), <<>>)

\* the absolute path with the given segments
FromSegments(segs) == <<"/">> \o JoinWith(segs, <<"/">>)

\* path.isAbsolute
IsAbsolute(p) == p # <<>> /\ p[1] = "/"

\* path.resolve(from, to) with from an absolute path
PathResolve(from, to) ==
    IF IsAbsolute(to) THEN FromSegments(Segments(to))
    ELSE IF to = <<>> THEN FromSegments(Segments(from))
    ELSE FromSegments(Segments(from \o <<"/">> \o to))

\* path.dirname of an absolute, resolved path
PathDirname(p) ==
    LET segs == Segments(p) IN
    IF Len(segs) <= 1 THEN <<"/">>
    ELSE FromSegments(SubSeq(segs, 1, Len(segs) - 1))

\* path.join(dir, name)
PathJoin(dir, name) == FromSegments(Segments(dir \o <<"/">> \o name))

(***************************************************************************)
(* The tokenizer                                                           *)
(***************************************************************************)
\* #charIsBracket knowing the single quote only
charIsBracket_singleOnly(charSymbol) == charSymbol = "'"

charIsBracket(charSymbol) == charSymbol \in {"'", "\""}

\* the loop of #getCommandWithParameters from position i on
RECURSIVE ScanFrom(_, _, _, _, _)
ScanFrom(stringToParse, i, tmp, paramInBracketsStarted, params) ==
    IF i > Len(stringToParse)
    THEN IF tmp # <<>> THEN Append(params, tmp) ELSE params
    ELSE LET nextSymbol == stringToParse[i]
             started == IF charIsBracket(nextSymbol)
                        THEN ~paramInBracketsStarted
                        ELSE paramInBracketsStarted
         IN  IF nextSymbol # " "
             THEN ScanFrom(stringToParse, i + 1, Append(tmp, nextSymbol), started, params)
             ELSE IF started
                  THEN ScanFrom(stringToParse, i + 1, Append(tmp, nextSymbol), started, params)
                  ELSE IF tmp # <<>>
                       THEN ScanFrom(stringToParse, i + 1, <<>>, started, Append(params, tmp))
                       ELSE ScanFrom(stringToParse, i + 1, tmp, started, params)

getCommandWithParameters(input) ==
    IF input = <<>> THEN <<>>
    ELSE ScanFrom(Trim(input), 1, <<>>, FALSE, <<>>)

\* #unbraketString taking any two quote characters for a pair
unbraketString_anyPair(str) ==
    IF str = <<>> THEN str
    ELSE IF ~charIsBracket(str[1]) THEN str
    ELSE IF ~charIsBracket(str[Len(str)]) THEN str
    ELSE LET res == Tail(str) IN
         IF res = <<>> THEN res
         ELSE SubSeq(res, 1, Len(res) - 1)

unbraketString(str) ==
    IF str = <<>> THEN str
    ELSE IF ~charIsBracket(str[1]) THEN str
    ELSE IF str[1] # str[Len(str)] THEN str
    ELSE LET res == Tail(str) IN
         IF res = <<>> THEN res
         ELSE SubSeq(res, 1, Len(res) - 1)

(***************************************************************************)
(* Command names and the environment the session runs in                   *)
(***************************************************************************)
COMMANDS_goUpper          == <<"u","p">>
COMMANDS_exit             == <<".","e","x","i","t">>
COMMANDS_changeDir        == <<"c","d">>
COMMANDS_listDir          == <<"l","s">>
COMMANDS_printFileContent == <<"c","a","t">>
COMMANDS_createEmptyFile  == <<"a","d","d">>
COMMANDS_renameFile       == <<"r","n">>
COMMANDS_copyFile         == <<"c","p">>
COMMANDS_moveFile         == <<"m","v">>
COMMANDS_deleteFile       == <<"r","m">>
COMMANDS_os               == <<"o","s">>
COMMANDS_getFileHash      == <<"h","a","s","h">>
COMMANDS_compressFile     == <<"c","o","m","p","r","e","s","s">>
COMMANDS_decompressFile   == <<"d","e","c","o","m","p","r","e","s","s">>

OS_COMMANDS ==
    { <<"-","-","E","O","L">>,
      <<"-","-","c","p","u","s">>,
      <<"-","-","h","o","m","e","d","i","r">>,
      <<"-","-","u","s","e","r","n","a","m","e">>,
      <<"-","-","a","r","c","h","i","t","e","c","t","u","r","e">> }

\* os.homedir() at startup: the directory /h/u
HomeDir == <<"/","h","/","u">>

\* The directories of the file system.  No command creates or removes a
\* directory, so they are fixed.  /h/u/s lies under the home directory; /h/u2
\* and /h/U are its siblings; /h and / are its ancestors.
Dirs ==
    { <<"/">>,
      <<"/","h">>,
      <<"/","h","/","u">>,
      <<"/","h","/","u","/","s">>,
      <<"/","h","/","u","2">>,
      <<"/","h","/","U">> }

\* File contents are sequences of bytes: "a" is an ASCII byte, "FF" a byte
\* that is no valid UTF-8.
InitFiles ==
    ( <<"/","h","/","u","/","f">>     :> <<"a","FF">> ) @@
    ( <<"/","h","/","u","2","/","g">> :> <<"a">> ) @@
    ( <<"/","h","/","x">>             :> <<"a">> )

\* at most this many commands are suspended at an await at a time
MaxInFlight == 2

(***************************************************************************)
(* Output messages and errors                                              *)
(***************************************************************************)
Err(text, path) == [text |-> text, path |-> path]
NoErr           == Err("", <<>>)

ERR_FileNotSet      == Err("Path to file is not set", <<>>)
ERR_DirNotSet       == Err("Path to directory is not set", <<>>)
ERR_NotAbsolute(p)  == Err("Path is not absolute", p)
ERR_NoFile(p)       == Err("File does not exist", p)
ERR_FileExists(p)   == Err("File already exists", p)
ERR_NoDir(p)        == Err("Directory does not exist", p)
ERR_OutsideRoot     == Err("You can't go upper than root directory", <<>>)

Msg(type, data, arg) == [type |-> type, data |-> data, arg |-> arg]

WelcomeMsg              == Msg("none", "Welcome to the File Manager", NoErr)
GoodbyeMsg              == Msg("none", "Thank you for using File Manager, goodbye!", NoErr)
CurrentWorkDirMsg(dir)  == Msg("currDirMessage", "You are currently in", Err("", dir))
PromptMsg               == Msg("none", "> Print command:", NoErr)
InvalidInputMsg         == Msg("error", "Invalid input", NoErr)
OperationFailedMsg(err) == Msg("error", "Operation failed", err)

(***************************************************************************)
(* State                                                                   *)
(***************************************************************************)
VARIABLES
    argv,            \* process.argv
    rootWorkDir,     \* #rootWorkDir
    currentWorkDir,  \* #currentWorkDir
    userName,        \* #userName
    ignoreStdin,     \* #ignoreStdin
    files,           \* the regular files: path -> content
    pending,         \* the bag of command handlers suspended at an await
    running,         \* the handler whose synchronous code runs now
    wq,              \* the messages that code writes before it returns
    wpc,             \* position inside write(): "idle", "begun", "echoed"
    status,          \* "open", "closed" (process.exit(0)) or "crashed"
    lastLine,        \* the line event handled by the last step, if any
    cdFrom           \* history of the navigation, see CdFromAfter

vars == <<argv, rootWorkDir, currentWorkDir, userName, ignoreStdin, files, pending,
          running, wq, wpc, status, lastLine, cdFrom>>

\* a handler: its tokens, its resolved paths, the awaited steps still to
\* come, what it has written and the error it threw; cwd0 is the current
\* directory when it was dispatched, cwd1 the current directory it found when
\* it returned, afterCd whether a change-dir was
\* suspended then, checks the validations it has been through with their
\* outcomes.  The first token of no tokens (undefined) is the empty string.
Handler(c) ==
    [cmd |-> IF c = <<>> THEN <<>> ELSE c[1], params |-> c,
     p1 |-> <<>>, p2 |-> <<>>, todo |-> <<>>,
     pc |-> "run", out |-> <<>>, err |-> NoErr, buf |-> <<>>, entries |-> <<>>,
     cwd0 |-> currentWorkDir, cwd1 |-> <<>>,
     afterCd |-> \E g \in BagToSet(pending) : g.cmd = <<"c", "d">>,
     checks |-> <<>>]

NoHandler ==
    [cmd |-> <<>>, params |-> <<>>, p1 |-> <<>>, p2 |-> <<>>, todo |-> <<>>,
     pc |-> "none", out |-> <<>>, err |-> NoErr, buf |-> <<>>, entries |-> <<>>,
     cwd0 |-> <<>>, cwd1 |-> <<>>, afterCd |-> FALSE, checks |-> <<>>]

\* the last line event: where it came from, what became of it and, when it
\* was read and tokenized, its text and its tokens
LineEvent(src, result, text, tokens) ==
    [src |-> src, result |-> result, text |-> text, tokens |-> tokens]

NoLine == LineEvent("none", "none", <<>>, <<>>)

\* control is in the event loop: no synchronous code is running
InEventLoop == status = "open" /\ wq = <<>> /\ wpc = "idle"

isDirectory(pathToDir) == pathToDir \in Dirs
isFile(pathToFile)     == pathToFile \in DOMAIN files

(***************************************************************************)
(* The validator                                                           *)
(***************************************************************************)
\* an awaited step: the call `op` on `path`.  For a step of a validation,
\* `of` is the path under validation and `flags` says what is asked of it:
\* "dir" (an existing directory), "exists" or "absent" (a file)
VStep(op, path, expect, of, flags) ==
    [op |-> op, path |-> path, expect |-> expect, of |-> of, flags |-> flags]

Step(op, path) == VStep(op, path, TRUE, <<>>, "")

\* the record of a validation that ended with `error` (NoErr: it passed)
Check(step, error) == [path |-> step.of, flags |-> step.flags, error |-> error]

\* line 158 with its operands exchanged: the root starts with the path
StartsWithRoot_reversed(absolutePath) ==
    StartsWith(ToLowerCase(rootWorkDir), ToLowerCase(absolutePath))

\* line 158: the path starts with the root, both lower-cased
StartsWithRoot(absolutePath) ==
    StartsWith(ToLowerCase(absolutePath), ToLowerCase(rootWorkDir))

\* lines 152-155: what #ifAbsolutePathOK throws before its first await
ifAbsolutePathOK_throws(absolutePath) ==
    IF absolutePath = <<>> THEN ERR_DirNotSet
    ELSE IF ~IsAbsolute(absolutePath) THEN ERR_NotAbsolute(absolutePath)
    ELSE NoErr

\* line 156: the one await of #ifAbsolutePathOK
ifAbsolutePathOK(absolutePath, of, flags) ==
    << VStep("isDirectory", absolutePath, TRUE, of, flags) >>

\* lines 156-159: what #ifAbsolutePathOK throws once fsp.stat has answered
ifAbsolutePathOK_after(absolutePath) ==
    IF ~isDirectory(absolutePath) THEN ERR_NoDir(absolutePath)
    ELSE IF ~StartsWithRoot(absolutePath) THEN ERR_OutsideRoot
    ELSE NoErr

\* line 133: what #ifFileOK throws before its first await
ifFileOK_throws(pathToFile) ==
    IF pathToFile = <<>> THEN ERR_FileNotSet ELSE NoErr

\* lines 135-141: the awaits of #ifFileOK, in order: fsp.stat of the file for
\* each existence flag that is set, then #ifAbsolutePathOK of its directory
ifFileOK(pathToFile, checkFileExistance, checkFileNonExistance) ==
    LET fullFilePath    == PathResolve(currentWorkDir, pathToFile)
        fullFileDirname == PathDirname(fullFilePath)
        flags == IF checkFileExistance THEN "exists"
                 ELSE IF checkFileNonExistance THEN "absent" ELSE "any"
    IN  (IF checkFileExistance
         THEN << VStep("isFile", fullFilePath, TRUE, fullFilePath, flags) >>
         ELSE <<>>)
        \o (IF checkFileNonExistance
            THEN << VStep("isFile", fullFilePath, FALSE, fullFilePath, flags) >>
            ELSE <<>>)
        \o ifAbsolutePathOK(fullFileDirname, fullFilePath, flags)

(***************************************************************************)
(* How a handler's synchronous code ends                                   *)
(***************************************************************************)
\* the arity guard with < in the place of !==: extra arguments pass
BadArity_atLeast(commandWithParams, n, command) ==
    \/ commandWithParams = <<>>
    \/ Len(commandWithParams) < n
    \/ commandWithParams[1] # command

\* the arity guard every handler starts with (lines 307, 317, 327, ...)
BadArity(commandWithParams, n, command) ==
    \/ commandWithParams = <<>>
    \/ Len(commandWithParams) # n
    \/ commandWithParams[1] # command

\* History of the navigation: the directory D when the current directory was
\* last set by a change-dir that was issued in D and went into a direct
\* child of D, and nothing (the empty string) after any other change-dir or
\* go-up.  h is the handler that returns and dir the directory it leaves.
CdFromAfter(h, dir) ==
    IF h.cmd = COMMANDS_changeDir /\ ~BadArity(h.params, 2, COMMANDS_changeDir)
       /\ h.err = NoErr
    THEN IF dir # h.cwd0 /\ PathDirname(dir) = h.cwd0 THEN h.cwd0 ELSE <<>>
    ELSE IF h.cmd = COMMANDS_goUpper /\ ~BadArity(h.params, 1, COMMANDS_goUpper)
         THEN <<>>
         ELSE cdFrom

\* The handler has returned or thrown: #handleUserInput's finally block
\* prints the current directory and the prompt (lines 245-248).  msgs are the
\* lines the handler itself wrote before, dir the current directory it leaves.
Return(h, msgs, dir, P) ==
    LET all == msgs \o << CurrentWorkDirMsg(dir), PromptMsg >> IN
    /\ currentWorkDir' = dir
    /\ cdFrom' = CdFromAfter(h, dir)
    /\ running' = [h EXCEPT !.pc = "done", !.todo = <<>>, !.out = h.out \o all,
                            !.cwd1 = currentWorkDir]
    /\ wq' = wq \o all
    /\ pending' = P

\* The handler threw: the catch block of #handleUserInput (lines 243-244)
Throw(h, error, P) ==
    Return([h EXCEPT !.err = error], << OperationFailedMsg(error) >>, currentWorkDir, P)

\* The handler is suspended at its next await
Await(h, P) ==
    /\ pending' = P (+) SetToBag({h})
    /\ UNCHANGED <<currentWorkDir, cdFrom, running, wq>>

\* close() followed by the finally block of the dispatcher: the status line
\* and the prompt come after the farewell
close_thenPrompt(h, P) ==
    LET all == << GoodbyeMsg, CurrentWorkDirMsg(currentWorkDir), PromptMsg >> IN
    /\ running' = [h EXCEPT !.pc = "closing", !.out = h.out \o all]
    /\ wq' = wq \o all
    /\ pending' = P
    /\ UNCHANGED <<currentWorkDir, cdFrom>>

\* close(), lines 89-93: the farewell, then rl.close() and the close event,
\* on which process.exit(0) ends the process (part_000, lines 13-15)
close(h, P) ==
    /\ running' = [h EXCEPT !.pc = "closing", !.out = h.out \o << GoodbyeMsg >>]
    /\ wq' = wq \o << GoodbyeMsg >>
    /\ pending' = P
    /\ UNCHANGED <<currentWorkDir, cdFrom>>

(***************************************************************************)
(* The handlers, up to their first await                                   *)
(***************************************************************************)
InvalidInput(h) == Return(h, << InvalidInputMsg >>, currentWorkDir, pending)

\* the resolved path of the k-th token
ResolvedParam(h, k) == PathResolve(currentWorkDir, unbraketString(h.params[k]))

\* starts the validations `steps`, the first of which guards with `throws`
StartSteps(h, throws, steps) ==
    IF throws # NoErr THEN Throw(h, throws, pending)
    ELSE Await([h EXCEPT !.todo = steps], pending)

exit(h) ==
    IF BadArity(h.params, 1, COMMANDS_exit) THEN InvalidInput(h)
    ELSE close(h, pending)

goUpper(h) ==
    IF BadArity(h.params, 1, COMMANDS_goUpper) THEN InvalidInput(h)
    ELSE IF currentWorkDir = rootWorkDir
         THEN Return(h, <<>>, currentWorkDir, pending)
         ELSE Return(h, <<>>, PathResolve(currentWorkDir, <<".", ".">>), pending)

changeDir(h) ==
    IF BadArity(h.params, 2, COMMANDS_changeDir) THEN InvalidInput(h)
    ELSE LET nextDir == ResolvedParam(h, 2) IN
         StartSteps([h EXCEPT !.p1 = nextDir],
                    ifAbsolutePathOK_throws(nextDir),
                    ifAbsolutePathOK(nextDir, nextDir, "dir"))

\* #listDir reading the root directory whatever the current directory is
listDir_ofRoot(h) ==
    IF BadArity(h.params, 1, COMMANDS_listDir) THEN InvalidInput(h)
    ELSE Await([h EXCEPT !.p1 = rootWorkDir,
                         !.todo = << Step("readdir", rootWorkDir),
                                     Step("stats", rootWorkDir) >>], pending)

listDir(h) ==
    IF BadArity(h.params, 1, COMMANDS_listDir) THEN InvalidInput(h)
    ELSE Await([h EXCEPT !.p1 = currentWorkDir,
                         !.todo = << Step("readdir", currentWorkDir),
                                     Step("stats", currentWorkDir) >>], pending)

\* a handler of one file: validation, then the steps of the operation
OneFileCommand(h, command, checkFileExistance, checkFileNonExistance, ops) ==
    IF BadArity(h.params, 2, command) THEN InvalidInput(h)
    ELSE LET pathToFile == ResolvedParam(h, 2) IN
         StartSteps([h EXCEPT !.p1 = pathToFile],
                    ifFileOK_throws(pathToFile),
                    ifFileOK(pathToFile, checkFileExistance, checkFileNonExistance)
                        \o [i \in 1..Len(ops) |-> Step(ops[i], pathToFile)])

\* a handler of a source and a destination file that validates the
\* destination after the operation
TwoFileCommand_lazy(h, command, ops) ==
    IF BadArity(h.params, 3, command) THEN InvalidInput(h)
    ELSE LET filePath    == ResolvedParam(h, 2)
             newFilePath == ResolvedParam(h, 3)
         IN  StartSteps([h EXCEPT !.p1 = filePath, !.p2 = newFilePath],
                        ifFileOK_throws(filePath),
                        ifFileOK(filePath, TRUE, FALSE)
                            \o [i \in 1..Len(ops) |-> Step(ops[i], filePath)]
                            \o ifFileOK(newFilePath, FALSE, TRUE))

\* a handler of a source and a destination file
TwoFileCommand(h, command, ops) ==
    IF BadArity(h.params, 3, command) THEN InvalidInput(h)
    ELSE LET filePath    == ResolvedParam(h, 2)
             newFilePath == ResolvedParam(h, 3)
         IN  StartSteps([h EXCEPT !.p1 = filePath, !.p2 = newFilePath],
                        ifFileOK_throws(filePath),
                        ifFileOK(filePath, TRUE, FALSE)
                            \o ifFileOK(newFilePath, FALSE, TRUE)
                            \o [i \in 1..Len(ops) |-> Step(ops[i], filePath)])

printFileContent(h) ==
    OneFileCommand(h, COMMANDS_printFileContent, TRUE, FALSE, <<"data", "end">>)

\* #createEmptyFile validating with checkFileNonExistance = false
createEmptyFile_noCheck(h) ==
    OneFileCommand(h, COMMANDS_createEmptyFile, FALSE, FALSE, <<"writeFile">>)

createEmptyFile(h) ==
    OneFileCommand(h, COMMANDS_createEmptyFile, FALSE, TRUE, <<"writeFile">>)

renameFile(h) == TwoFileCommand(h, COMMANDS_renameFile, <<"rename">>)

copyFile(h) == TwoFileCommand(h, COMMANDS_copyFile, <<"open", "finish">>)

moveFile(h) == TwoFileCommand(h, COMMANDS_moveFile, <<"open", "finish", "unlink">>)

deleteFile(h) ==
    OneFileCommand(h, COMMANDS_deleteFile, TRUE, FALSE, <<"unlink">>)

getFileHash(h) ==
    OneFileCommand(h, COMMANDS_getFileHash, TRUE, FALSE, <<"digest">>)

compressFile(h) == TwoFileCommand(h, COMMANDS_compressFile, <<"open", "finish">>)

decompressFile(h) == TwoFileCommand(h, COMMANDS_decompressFile, <<"open", "finish">>)

\* lines 467-473; null is the empty string here
getOSCommandParameter(commandWithParams) ==
    IF \/ commandWithParams = <<>>
       \/ Len(commandWithParams) > 2
       \/ commandWithParams[1] # COMMANDS_os
       \/ Len(commandWithParams) < 2
       \/ commandWithParams[2] \notin OS_COMMANDS
    THEN <<>>
    ELSE commandWithParams[2]

\* lines 204-226: the answer of an os query is one line (--cpus prints its
\* table with console.table, not through write)
osCommand(h) ==
    LET commandParameter == getOSCommandParameter(h.params) IN
    IF commandParameter = <<>> THEN InvalidInput(h)
    ELSE IF commandParameter = <<"-","-","c","p","u","s">>
         THEN Return(h, <<>>, currentWorkDir, pending)
         ELSE Return(h, << Msg("none", "os", Err("", commandParameter)) >>,
                     currentWorkDir, pending)

\* the switch of #handleUserInput, lines 169-242
Dispatch(h) ==
    LET command == h.cmd IN
    CASE command = COMMANDS_exit             -> exit(h)
      [] command = COMMANDS_goUpper          -> goUpper(h)
      [] command = COMMANDS_changeDir        -> changeDir(h)
      [] command = COMMANDS_listDir          -> listDir(h)
      [] command = COMMANDS_printFileContent -> printFileContent(h)
      [] command = COMMANDS_createEmptyFile  -> createEmptyFile(h)
      [] command = COMMANDS_renameFile       -> renameFile(h)
      [] command = COMMANDS_copyFile         -> copyFile(h)
      [] command = COMMANDS_moveFile         -> moveFile(h)
      [] command = COMMANDS_deleteFile       -> deleteFile(h)
      [] command = COMMANDS_os               -> osCommand(h)
      [] command = COMMANDS_getFileHash      -> getFileHash(h)
      [] command = COMMANDS_compressFile     -> compressFile(h)
      [] command = COMMANDS_decompressFile   -> decompressFile(h)
      [] OTHER                               -> InvalidInput(h)

\* line 163 without its guard: no line is ever dropped
DiscardsInput_never == FALSE

\* line 163: a line is dropped while a write is under way
DiscardsInput == ignoreStdin

\* line 166 without its test: no tokens are a command like any other
IsNoCommand_never(commandWithParams) == FALSE

\* line 166: the line holds no token
IsNoCommand(commandWithParams) == commandWithParams = <<>>

\* #handleUserInput, lines 162-167, on a line event from src
handleUserInput(inputs, src) ==
    IF DiscardsInput
    THEN /\ lastLine' = LineEvent(src, "discarded", <<>>, <<>>)
         /\ UNCHANGED <<currentWorkDir, cdFrom, pending, running, wq>>
    ELSE LET commandWithParams == getCommandWithParameters(inputs) IN
         IF IsNoCommand(commandWithParams)
         THEN /\ lastLine' = LineEvent(src, "empty", inputs, <<>>)
              /\ UNCHANGED <<currentWorkDir, cdFrom, pending, running, wq>>
         ELSE /\ lastLine' = LineEvent(src, "dispatched", inputs, commandWithParams)
              /\ Dispatch(Handler(commandWithParams))

(***************************************************************************)
(* The session: construction, line events, write()                         *)
(***************************************************************************)
\* the constructor, lines 21-43: the three lines it writes are still to come
Start(args) ==
    /\ argv = args
    /\ rootWorkDir = HomeDir
    /\ currentWorkDir = HomeDir
    /\ userName = StartupUserName(args)
    /\ ignoreStdin = FALSE
    /\ files = InitFiles
    /\ pending = EmptyBag
    /\ running = [NoHandler EXCEPT !.pc = "init"]
    /\ wq = << WelcomeMsg, CurrentWorkDirMsg(HomeDir), PromptMsg >>
    /\ wpc = "idle"
    /\ status = "open"
    /\ lastLine = NoLine
    /\ cdFrom = <<>>

\* the program path and the script path, no argument after them
PlainArgv == << <<"n","o","d","e">>, <<"i","n","d","e","x",".","j","s">> >>

\* the session started without arguments
Init == Start(PlainArgv)

\* the user enters a line: the 'line' listener of lines 36-38
UserLine(Lines) ==
    \E inputs \in Lines :
        /\ InEventLoop
        /\ BagCardinality(pending) < MaxInFlight
        /\ handleUserInput(inputs, "user")
        /\ UNCHANGED <<argv, rootWorkDir, userName, ignoreStdin, files, wpc, status>>

\* the interrupt signal: the 'SIGINT' listener of lines 33-35
Sigint ==
    /\ InEventLoop
    /\ close([NoHandler EXCEPT !.cmd = <<"S","I","G","I","N","T">>], pending)
    /\ lastLine' = NoLine
    /\ UNCHANGED <<argv, rootWorkDir, userName, ignoreStdin, files, wpc, status>>

\* write(), line 46
WriteBegin ==
    /\ status = "open"
    /\ wq # <<>>
    /\ wpc = "idle"
    /\ ignoreStdin' = TRUE
    /\ wpc' = "begun"
    /\ lastLine' = NoLine
    /\ UNCHANGED <<argv, rootWorkDir, currentWorkDir, userName, files, pending,
                   running, wq, status, cdFrom>>

\* write(), line 58: rl.write hands the text to the line interface as if the
\* user had typed it, which raises a line event inside the call.  The text
\* is what is being printed; printed file content can be any line.
EchoLine(Lines) ==
    \E inputs \in Lines :
        /\ status = "open"
        /\ wpc = "begun"
        /\ handleUserInput(inputs, "write")
        /\ wpc' = "echoed"
        /\ UNCHANGED <<argv, rootWorkDir, userName, ignoreStdin, files, status>>

\* line 59 left out: write() returns with the flag still set
IgnoreStdinAfterWrite_kept == ignoreStdin

\* line 59: the value write() leaves in #ignoreStdin
IgnoreStdinAfterWrite == FALSE

\* write(), line 59, and the return to the caller.  When the last line of the
\* running code is written the code is over: a finished handler is dropped,
\* a suspended one waits for its next event, and after close() the process
\* exits.
WriteEnd ==
    /\ status = "open"
    /\ wpc = "echoed"
    /\ ignoreStdin' = IgnoreStdinAfterWrite
    /\ wpc' = "idle"
    /\ wq' = Tail(wq)
    /\ lastLine' = NoLine
    /\ IF Tail(wq) # <<>>
       THEN UNCHANGED <<running, pending, status>>
       ELSE /\ running' = NoHandler
            /\ pending' = IF running.pc = "run"
                          THEN pending (+) SetToBag({running}) ELSE pending
            /\ status' = IF running.pc = "closing" THEN "closed" ELSE status
    /\ UNCHANGED <<argv, rootWorkDir, currentWorkDir, userName, files, cdFrom>>

(***************************************************************************)
(* The awaited steps of the handlers                                       *)
(***************************************************************************)
\* the suspended handlers whose next event is the end of `op`
Awaiting(op) ==
    { h \in BagToSet(pending) : h.todo # <<>> /\ Head(h.todo).op = op }

Others(h) == pending (-) SetToBag({h})

\* every handler assigning its resolved path to #currentWorkDir, as
\* #changeDir does at line 333
Complete_assigning(h, P) == Return(h, <<>>, h.p1, P)

\* #changeDir resolving its argument after the validation, against the
\* current directory of that moment
Complete_resolvingLate(h, P) ==
    IF h.cmd = COMMANDS_changeDir
    THEN Return(h, <<>>, ResolvedParam(h, 2), P)
    ELSE Return(h, <<>>, currentWorkDir, P)

\* the handler's code after its last await
Complete(h, P) ==
    IF h.cmd = COMMANDS_changeDir
    THEN Return(h, <<>>, h.p1, P)
    ELSE Return(h, <<>>, currentWorkDir, P)

\* the handler goes on after the await of Head(h.todo)
Proceed(h, P) ==
    LET g == [h EXCEPT !.todo = Tail(h.todo)] IN
    IF g.todo = <<>> THEN Complete(g, P) ELSE Await(g, P)

\* #isDirectory answers inside #ifAbsolutePathOK (lines 151-160)
StatDir ==
    \E h \in Awaiting("isDirectory") :
        LET absolutePath == Head(h.todo).path
            thrown == IF ifAbsolutePathOK_throws(absolutePath) # NoErr
                      THEN ifAbsolutePathOK_throws(absolutePath)
                      ELSE ifAbsolutePathOK_after(absolutePath)
            g == [h EXCEPT !.checks = Append(h.checks, Check(Head(h.todo), thrown))]
        IN  /\ InEventLoop
            /\ IF thrown # NoErr THEN Throw(g, thrown, Others(h))
               ELSE Proceed(g, Others(h))
            /\ lastLine' = NoLine
            /\ UNCHANGED <<argv, rootWorkDir, userName, ignoreStdin, files, wpc, status>>

\* #isFile answers inside #ifFileOK (lines 137-140)
StatFile ==
    \E h \in Awaiting("isFile") :
        LET fullFilePath == Head(h.todo).path
            expected     == Head(h.todo).expect
            thrown == IF expected /\ ~isFile(fullFilePath)
                      THEN ERR_NoFile(fullFilePath)
                      ELSE IF ~expected /\ isFile(fullFilePath)
                           THEN ERR_FileExists(fullFilePath)
                           ELSE NoErr
            g == [h EXCEPT !.checks = Append(h.checks, Check(Head(h.todo), thrown))]
        IN  /\ InEventLoop
            /\ IF thrown # NoErr THEN Throw(g, thrown, Others(h))
               ELSE Proceed(h, Others(h))
            /\ lastLine' = NoLine
            /\ UNCHANGED <<argv, rootWorkDir, userName, ignoreStdin, files, wpc, status>>

(***************************************************************************)
(* The file system calls and the streams                                   *)
(***************************************************************************)
ENOENT(p) == Err("ENOENT: no such file or directory", p)
EISDIR(p) == Err("EISDIR: illegal operation on a directory", p)

\* the file system with file p holding content
WithFile(fs, p, content) ==
    [q \in DOMAIN fs \cup {p} |-> IF q = p THEN content ELSE fs[q]]

\* the file system without file p
WithoutFile(fs, p) == [q \in DOMAIN fs \ {p} |-> fs[q]]

\* a file can be opened for writing at p: p is no directory, its parent is one
CanWrite(p) == ~isDirectory(p) /\ isDirectory(PathDirname(p))

\* bytes read as 'utf-8' text and written back: a byte that is no valid
\* UTF-8 becomes U+FFFD, whose encoding is EF BF BD
RECURSIVE Utf8RoundTrip(_)
Utf8RoundTrip(bytes) ==
    IF bytes = <<>> THEN <<>>
    ELSE (IF Head(bytes) = "FF" THEN <<"EF","BF","BD">> ELSE <<Head(bytes)>>)
         \o Utf8RoundTrip(Tail(bytes))

\* the Brotli codec, as a framing of the bytes: a compressed stream starts
\* with the mark "BR"; anything else does not decode
BrotliCompress(bytes)   == <<"BR">> \o bytes
IsBrotli(bytes)         == bytes # <<>> /\ Head(bytes) = "BR"
BrotliDecompress(bytes) == Tail(bytes)

\* An 'error' event on a stream that has no 'error' listener is thrown as an
\* uncaught exception, which ends the process
Crash(h, error, P) ==
    /\ running' = [h EXCEPT !.pc = "crashed", !.err = error]
    /\ pending' = P
    /\ status' = "crashed"
    /\ UNCHANGED <<currentWorkDir, cdFrom, wq>>

\* the handler writes msgs and stays suspended at its next await
WriteAndAwait(h, msgs, P) ==
    /\ running' = [h EXCEPT !.todo = Tail(h.todo), !.out = h.out \o msgs]
    /\ wq' = wq \o msgs
    /\ pending' = P
    /\ UNCHANGED <<currentWorkDir, cdFrom>>

\* fsp.writeFile(pathToFile, '', 'utf-8'), line 402
WriteFile ==
    \E h \in Awaiting("writeFile") :
        /\ InEventLoop
        /\ IF isDirectory(h.p1)
           THEN Throw(h, EISDIR(h.p1), Others(h)) /\ UNCHANGED files
           ELSE IF ~isDirectory(PathDirname(h.p1))
                THEN Throw(h, ENOENT(h.p1), Others(h)) /\ UNCHANGED files
                ELSE /\ files' = WithFile(files, h.p1, <<>>)
                     /\ Proceed(h, Others(h))
        /\ lastLine' = NoLine
        /\ UNCHANGED <<argv, rootWorkDir, userName, ignoreStdin, wpc, status>>

\* fsp.rename(filePath, newFilePath), line 414
Rename ==
    \E h \in Awaiting("rename") :
        /\ InEventLoop
        /\ IF ~isFile(h.p1)
           THEN Throw(h, ENOENT(h.p1), Others(h)) /\ UNCHANGED files
           ELSE IF ~CanWrite(h.p2)
                THEN Throw(h, EISDIR(h.p2), Others(h)) /\ UNCHANGED files
                ELSE /\ files' = WithFile(WithoutFile(files, h.p1), h.p2, files[h.p1])
                     /\ Proceed(h, Others(h))
        /\ lastLine' = NoLine
        /\ UNCHANGED <<argv, rootWorkDir, userName, ignoreStdin, wpc, status>>

\* fsp.unlink(filePath), lines 452 and 462
Unlink ==
    \E h \in Awaiting("unlink") :
        /\ InEventLoop
        /\ IF ~isFile(h.p1)
           THEN Throw(h, ENOENT(h.p1), Others(h)) /\ UNCHANGED files
           ELSE /\ files' = WithoutFile(files, h.p1)
                /\ Proceed(h, Others(h))
        /\ lastLine' = NoLine
        /\ UNCHANGED <<argv, rootWorkDir, userName, ignoreStdin, wpc, status>>

\* the stream promise rejects on an error of its write stream
\* (lines 534 and 553); #createCopyingPromise has no such listener
HandlesWriteError(h) == h.cmd \in {COMMANDS_compressFile, COMMANDS_decompressFile}

\* The read stream and the write stream of a copy, a move, a compression or
\* a decompression open their files (lines 420-421, 529-530, 548-549).  The
\* write stream creates or truncates the destination.  No read stream has an
\* 'error' listener; when the source cannot be opened the destination may or
\* may not have been created before the process ends.
StreamOpen ==
    \E h \in Awaiting("open") :
        /\ InEventLoop
        /\ IF ~isFile(h.p1)
           THEN /\ Crash(h, ENOENT(h.p1), Others(h))
                /\ \/ UNCHANGED files
                   \/ CanWrite(h.p2) /\ files' = WithFile(files, h.p2, <<>>)
           ELSE IF ~CanWrite(h.p2)
                THEN /\ UNCHANGED files
                     /\ IF HandlesWriteError(h)
                        THEN Throw(h, EISDIR(h.p2), Others(h)) /\ UNCHANGED status
                        ELSE Crash(h, EISDIR(h.p2), Others(h))
                ELSE /\ files' = WithFile(files, h.p2, <<>>)
                     /\ Proceed([h EXCEPT !.buf = files[h.p1]], Others(h))
                     /\ UNCHANGED status
        /\ lastLine' = NoLine
        /\ UNCHANGED <<argv, rootWorkDir, userName, ignoreStdin, wpc>>

\* what the pipe of the handler delivers for the bytes read
Piped(h) ==
    CASE h.cmd = COMMANDS_compressFile   -> BrotliCompress(Utf8RoundTrip(h.buf))
      [] h.cmd = COMMANDS_decompressFile -> BrotliDecompress(h.buf)
      [] OTHER                           -> Utf8RoundTrip(h.buf)

\* The pipe has delivered everything and the write stream emits 'finish'
\* (lines 423, 533, 552).  The decompressor emits 'error' on bytes that are
\* no Brotli stream, and nothing listens for it.
StreamFinish ==
    \E h \in Awaiting("finish") :
        /\ InEventLoop
        /\ IF h.cmd = COMMANDS_decompressFile /\ ~IsBrotli(h.buf)
           THEN /\ Crash(h, Err("Decompression failed", h.p1), Others(h))
                /\ UNCHANGED files
           ELSE /\ files' = IF isFile(h.p2)
                            THEN WithFile(files, h.p2, Piped(h)) ELSE files
                /\ Proceed(h, Others(h))
                /\ UNCHANGED status
        /\ lastLine' = NoLine
        /\ UNCHANGED <<argv, rootWorkDir, userName, ignoreStdin, wpc>>

\* the read stream of #printFileContent delivers the file as text
\* (lines 383-386), or fails and rejects the promise (line 391)
ReadData ==
    \E h \in Awaiting("data") :
        /\ InEventLoop
        /\ IF ~isFile(h.p1) THEN Throw(h, ENOENT(h.p1), Others(h))
           ELSE IF files[h.p1] = <<>> THEN Proceed(h, Others(h))
           ELSE WriteAndAwait(h,
                    << Msg("none", "chunk", Err("", Utf8RoundTrip(files[h.p1]))) >>,
                    Others(h))
        /\ lastLine' = NoLine
        /\ UNCHANGED <<argv, rootWorkDir, userName, ignoreStdin, files, wpc, status>>

\* the read stream of #printFileContent ends (lines 387-390)
ReadEnd ==
    \E h \in Awaiting("end") :
        /\ InEventLoop
        /\ Return(h, << Msg("none", "", NoErr) >>, currentWorkDir, Others(h))
        /\ lastLine' = NoLine
        /\ UNCHANGED <<argv, rootWorkDir, userName, ignoreStdin, files, wpc, status>>

\* getSha256Hash of #getFileHash (lines 504-514); the digest of a content is
\* written as that content
Digest ==
    \E h \in Awaiting("digest") :
        /\ InEventLoop
        /\ IF ~isFile(h.p1) THEN Throw(h, ENOENT(h.p1), Others(h))
           ELSE Return(h, << Msg("none", "sha256", Err("", files[h.p1])) >>,
                       currentWorkDir, Others(h))
        /\ lastLine' = NoLine
        /\ UNCHANGED <<argv, rootWorkDir, userName, ignoreStdin, files, wpc, status>>

(***************************************************************************)
(* list-dir                                                                *)
(***************************************************************************)
\* the last segment of a path
BaseName(p) == LET segs == Segments(p) IN segs[Len(segs)]

\* the paths of the directories and files directly inside dir
ChildrenOf(dir) ==
    { p \in (Dirs \cup DOMAIN files) : p # dir /\ PathDirname(p) = dir }

\* every order in which the file system may enumerate a set of paths
RECURSIVE Orders(_)
Orders(S) ==
    IF S = {} THEN { <<>> }
    ELSE UNION { { <<p>> \o rest : rest \in Orders(S \ {p}) } : p \in S }

\* fsp.readdir answers (line 342); the map callback joins each name with
\* the current directory as it is now (line 346)
Readdir ==
    \E h \in Awaiting("readdir") :
        \E order \in Orders(ChildrenOf(h.p1)) :
            /\ InEventLoop
            /\ Await([h EXCEPT
                        !.todo = Tail(h.todo),
                        !.entries = [i \in 1..Len(order) |->
                            [Name |-> BaseName(order[i]),
                             path |-> PathJoin(currentWorkDir, BaseName(order[i])),
                             isDirectory |-> FALSE]]],
                     Others(h))
            /\ lastLine' = NoLine
            /\ UNCHANGED <<argv, rootWorkDir, userName, ignoreStdin, files, wpc, status>>

\* the comparator of lines 350-362.  The objects have a property Name and
\* none called name, so a.name < b.name and a.name > b.name are both false.
CompareObjects(a, b) ==
    IF a.isDirectory /\ ~b.isDirectory THEN -1
    ELSE IF ~a.isDirectory /\ b.isDirectory THEN 1
    ELSE 0

\* Array.prototype.sort, which is stable, under CompareObjects
SortObjects(objects) ==
    LET IsLow(o)  == CompareObjects(o, [isDirectory |-> FALSE]) < 0
    IN  SelectSeq(objects, IsLow)
        \o SelectSeq(objects, LAMBDA o : ~IsLow(o))

\* every #isDirectory of the map has answered (lines 341-349); the sorted
\* table is printed with console.table (line 370)
StatEntries ==
    \E h \in Awaiting("stats") :
        LET objects == [i \in 1..Len(h.entries) |->
                          [h.entries[i] EXCEPT !.isDirectory = isDirectory(h.entries[i].path)]]
            g == [h EXCEPT !.entries = SortObjects(objects),
                           !.out = h.out \o << Msg("table", "ls", NoErr) >>]
        IN  /\ InEventLoop
            /\ Proceed(g, Others(h))
            /\ lastLine' = NoLine
            /\ UNCHANGED <<argv, rootWorkDir, userName, ignoreStdin, files, wpc, status>>

(***************************************************************************)
(* Input lines                                                             *)
(***************************************************************************)
\* the line made of the given words, one blank between neighbours
Line(words) == JoinWith(words, <<" ">>)

ARG_s       == <<"s">>
ARG_up      == <<".", ".">>
ARG_sibling == <<".",".","/","u","2">>
ARG_upper   == <<".",".","/","U">>
ARG_child   == <<"u">>
ARG_nosuch  == <<"/","n","o">>
ARG_empty   == <<"\"", "\"">>
ARG_f       == <<"f">>

\* the navigation commands, with wrong arities and an empty quoted path
NavLines ==
    { Line(<<COMMANDS_goUpper>>),
      Line(<<COMMANDS_goUpper, ARG_s>>),
      Line(<<COMMANDS_changeDir>>),
      Line(<<COMMANDS_changeDir, ARG_s>>),
      Line(<<COMMANDS_changeDir, ARG_s, ARG_s>>),
      Line(<<COMMANDS_changeDir, ARG_up>>),
      Line(<<COMMANDS_changeDir, ARG_sibling>>),
      Line(<<COMMANDS_changeDir, ARG_upper>>),
      Line(<<COMMANDS_changeDir, ARG_child>>),
      Line(<<COMMANDS_changeDir, ARG_nosuch>>),
      Line(<<COMMANDS_changeDir, ARG_f>>),
      Line(<<COMMANDS_changeDir, ARG_empty>>),
      <<" ", " ">> }

NextNav ==
    \/ UserLine(NavLines)
    \/ WriteBegin
    \/ EchoLine(NavLines)
    \/ WriteEnd
    \/ StatDir

SpecNav == Init /\ [][NextNav]_vars

ARG_g   == <<"g">>
ARG_n   == <<"n">>
ARG_z   == <<"z">>
ARG_d   == <<"d">>
ARG_EOL == <<"-","-","E","O","L">>

\* one well-formed line of every command
CommandLines ==
    { Line(<<COMMANDS_exit>>),
      Line(<<COMMANDS_goUpper>>),
      Line(<<COMMANDS_changeDir, ARG_s>>),
      Line(<<COMMANDS_listDir>>),
      Line(<<COMMANDS_printFileContent, ARG_f>>),
      Line(<<COMMANDS_createEmptyFile, ARG_n>>),
      Line(<<COMMANDS_renameFile, ARG_f, ARG_g>>),
      Line(<<COMMANDS_copyFile, ARG_f, ARG_g>>),
      Line(<<COMMANDS_moveFile, ARG_f, ARG_g>>),
      Line(<<COMMANDS_deleteFile, ARG_f>>),
      Line(<<COMMANDS_os, ARG_EOL>>),
      Line(<<COMMANDS_getFileHash, ARG_f>>),
      Line(<<COMMANDS_compressFile, ARG_f, ARG_z>>),
      Line(<<COMMANDS_decompressFile, ARG_z, ARG_d>>) }

Next ==
    \/ UserLine(CommandLines)
    \/ Sigint
    \/ WriteBegin
    \/ EchoLine(CommandLines)
    \/ WriteEnd
    \/ StatDir
    \/ StatFile
    \/ WriteFile
    \/ Rename
    \/ Unlink
    \/ StreamOpen
    \/ StreamFinish
    \/ ReadData
    \/ ReadEnd
    \/ Digest
    \/ Readdir
    \/ StatEntries

\* the whole session; its state space grows fast with MaxInFlight, and the
\* properties below are checked under the specifications of fewer lines
Spec == Init /\ [][Next]_vars

ARG_x        == <<".",".","/","x">>
ARG_q        == <<".",".","/","q">>
ARG_outside  == <<".",".","/","u","2","/","n">>
ARG_outsideg == <<".",".","/","u","2","/","g">>
ARG_nodir    == <<"/","n","o","/","n">>

\* commands on paths outside the root, existing or not, and two inside it
SandboxLines ==
    { Line(<<COMMANDS_changeDir, ARG_up>>),
      Line(<<COMMANDS_changeDir, ARG_nosuch>>),
      Line(<<COMMANDS_printFileContent, ARG_x>>),
      Line(<<COMMANDS_printFileContent, ARG_q>>),
      Line(<<COMMANDS_createEmptyFile, ARG_x>>),
      Line(<<COMMANDS_createEmptyFile, ARG_q>>),
      Line(<<COMMANDS_createEmptyFile, ARG_nodir>>),
      Line(<<COMMANDS_createEmptyFile, ARG_outside>>),
      Line(<<COMMANDS_deleteFile, ARG_outsideg>>),
      Line(<<COMMANDS_deleteFile, ARG_x>>),
      Line(<<COMMANDS_createEmptyFile, ARG_n>>),
      Line(<<COMMANDS_deleteFile, ARG_f>>) }

NextSandbox ==
    \/ UserLine(SandboxLines)
    \/ WriteBegin
    \/ EchoLine(SandboxLines)
    \/ WriteEnd
    \/ StatDir
    \/ StatFile
    \/ WriteFile
    \/ Unlink

SpecSandbox == Init /\ [][NextSandbox]_vars

ARG_quoted == <<"'","c","d","'">>

\* every command with too few and with too many arguments, os with a
\* missing, an extra and an unknown parameter, two unknown first tokens, and
\* some well-formed lines
ArityLines ==
    { Line(<<COMMANDS_exit, ARG_s>>),
      Line(<<COMMANDS_goUpper, ARG_s>>),
      Line(<<COMMANDS_changeDir>>),
      Line(<<COMMANDS_changeDir, ARG_s, ARG_s>>),
      Line(<<COMMANDS_listDir, ARG_s>>),
      Line(<<COMMANDS_printFileContent>>),
      Line(<<COMMANDS_printFileContent, ARG_f, ARG_f>>),
      Line(<<COMMANDS_createEmptyFile>>),
      Line(<<COMMANDS_createEmptyFile, ARG_n, ARG_n>>),
      Line(<<COMMANDS_renameFile, ARG_f>>),
      Line(<<COMMANDS_renameFile, ARG_f, ARG_g, ARG_n>>),
      Line(<<COMMANDS_copyFile, ARG_f>>),
      Line(<<COMMANDS_copyFile, ARG_f, ARG_g, ARG_n>>),
      Line(<<COMMANDS_moveFile, ARG_f>>),
      Line(<<COMMANDS_moveFile, ARG_f, ARG_g, ARG_n>>),
      Line(<<COMMANDS_deleteFile>>),
      Line(<<COMMANDS_deleteFile, ARG_f, ARG_f>>),
      Line(<<COMMANDS_os>>),
      Line(<<COMMANDS_os, ARG_EOL, ARG_s>>),
      Line(<<COMMANDS_os, ARG_s>>),
      Line(<<COMMANDS_getFileHash>>),
      Line(<<COMMANDS_getFileHash, ARG_f, ARG_f>>),
      Line(<<COMMANDS_compressFile, ARG_f>>),
      Line(<<COMMANDS_compressFile, ARG_f, ARG_z, ARG_n>>),
      Line(<<COMMANDS_decompressFile, ARG_z>>),
      Line(<<COMMANDS_decompressFile, ARG_z, ARG_d, ARG_n>>),
      Line(<<ARG_s>>),
      Line(<<ARG_quoted, ARG_s>>),
      Line(<<COMMANDS_changeDir, ARG_s>>),
      Line(<<COMMANDS_goUpper>>),
      Line(<<COMMANDS_createEmptyFile, ARG_n>>),
      Line(<<COMMANDS_deleteFile, ARG_f>>),
      Line(<<COMMANDS_os, ARG_EOL>>) }

NextArity ==
    \/ UserLine(ArityLines)
    \/ WriteBegin
    \/ EchoLine(ArityLines)
    \/ WriteEnd
    \/ StatDir
    \/ StatFile
    \/ WriteFile
    \/ Unlink

SpecArity == Init /\ [][NextArity]_vars

ARG_nofile == <<"q">>

\* copies onto a new name, onto a directory and of a missing file
CopyLines ==
    { Line(<<COMMANDS_copyFile, ARG_f, ARG_n>>),
      Line(<<COMMANDS_copyFile, ARG_f, ARG_s>>),
      Line(<<COMMANDS_copyFile, ARG_nofile, ARG_n>>),
      Line(<<COMMANDS_changeDir, ARG_s>>),
      Line(<<COMMANDS_goUpper>>) }

NextCopy ==
    \/ UserLine(CopyLines)
    \/ WriteBegin
    \/ EchoLine(CopyLines)
    \/ WriteEnd
    \/ StatDir
    \/ StatFile
    \/ StreamOpen
    \/ StreamFinish

SpecCopy == Init /\ [][NextCopy]_vars

\* the streaming commands on a text file that is no Brotli stream, with a
\* directory as destination, and the removal of their source
StreamLines ==
    { Line(<<COMMANDS_printFileContent, ARG_f>>),
      Line(<<COMMANDS_getFileHash, ARG_f>>),
      Line(<<COMMANDS_copyFile, ARG_f, ARG_n>>),
      Line(<<COMMANDS_compressFile, ARG_f, ARG_s>>),
      Line(<<COMMANDS_decompressFile, ARG_f, ARG_d>>),
      Line(<<COMMANDS_deleteFile, ARG_f>>) }

NextStreams ==
    \/ UserLine(StreamLines)
    \/ WriteBegin
    \/ EchoLine(StreamLines)
    \/ WriteEnd
    \/ StatDir
    \/ StatFile
    \/ Unlink
    \/ StreamOpen
    \/ StreamFinish
    \/ ReadData
    \/ ReadEnd
    \/ Digest

SpecStreams == Init /\ [][NextStreams]_vars

\* a change-dir and a list-dir
RaceLines ==
    { Line(<<COMMANDS_changeDir, ARG_s>>),
      Line(<<COMMANDS_listDir>>) }

NextRace ==
    \/ UserLine(RaceLines)
    \/ WriteBegin
    \/ EchoLine(RaceLines)
    \/ WriteEnd
    \/ StatDir
    \/ Readdir
    \/ StatEntries

SpecRace == Init /\ [][NextRace]_vars

\* the exit command, with and without an argument, and a change-dir
ExitLines ==
    { Line(<<COMMANDS_exit>>),
      Line(<<COMMANDS_exit, ARG_s>>),
      Line(<<COMMANDS_changeDir, ARG_s>>),
      Line(<<COMMANDS_goUpper>>) }

NextExit ==
    \/ UserLine(ExitLines)
    \/ Sigint
    \/ WriteBegin
    \/ EchoLine(ExitLines)
    \/ WriteEnd
    \/ StatDir

SpecExit == Init /\ [][NextExit]_vars

\* the longest line of the bounded alphabet
MaxLineLen == 4

\* a letter, the blank and the two quote characters
TokAlphabet == { "a", " ", "'", "\"" }

ARG_quotedName == <<"'","a"," ","b",".","t","x","t","'">>
ARG_plainName  == <<"c",".","t","x","t">>

\* cp 'a b.txt' c.txt
QuotedCopyLine == Line(<<COMMANDS_copyFile, ARG_quotedName, ARG_plainName>>)

\* every line of the alphabet up to the longest, the empty one included
TokLines ==
    UNION { [1..k -> TokAlphabet] : k \in 0..MaxLineLen } \cup { QuotedCopyLine }

NextTok ==
    \/ UserLine(TokLines)
    \/ WriteBegin
    \/ EchoLine({QuotedCopyLine})
    \/ WriteEnd
    \/ StatFile

SpecTok == Init /\ [][NextTok]_vars

\* create-file on a new name, an existing file, a directory and a name in
\* a directory that does not exist
AddLines ==
    { Line(<<COMMANDS_createEmptyFile, ARG_n>>),
      Line(<<COMMANDS_createEmptyFile, ARG_f>>),
      Line(<<COMMANDS_createEmptyFile, ARG_s>>),
      Line(<<COMMANDS_createEmptyFile, ARG_nodir>>) }

NextAdd ==
    \/ UserLine(AddLines)
    \/ WriteBegin
    \/ EchoLine(AddLines)
    \/ WriteEnd
    \/ StatDir
    \/ StatFile
    \/ WriteFile

SpecAdd == Init /\ [][NextAdd]_vars

\* three commands with the same new destination n
OverwriteLines ==
    { Line(<<COMMANDS_createEmptyFile, ARG_n>>),
      Line(<<COMMANDS_renameFile, ARG_f, ARG_n>>),
      Line(<<COMMANDS_copyFile, ARG_f, ARG_n>>) }

NextOverwrite ==
    \/ UserLine(OverwriteLines)
    \/ WriteBegin
    \/ EchoLine(OverwriteLines)
    \/ WriteEnd
    \/ StatDir
    \/ StatFile
    \/ WriteFile
    \/ Rename
    \/ StreamOpen
    \/ StreamFinish

SpecOverwrite == Init /\ [][NextOverwrite]_vars

\* two-argument commands whose validation passes, fails on the source, and
\* fails on the destination
TwoFileLines ==
    { Line(<<COMMANDS_renameFile, ARG_f, ARG_n>>),
      Line(<<COMMANDS_renameFile, ARG_nofile, ARG_n>>),
      Line(<<COMMANDS_copyFile, ARG_f, ARG_x>>),
      Line(<<COMMANDS_moveFile, ARG_f, ARG_n>>),
      Line(<<COMMANDS_moveFile, ARG_f, ARG_nodir>>),
      Line(<<COMMANDS_compressFile, ARG_f, ARG_z>>),
      Line(<<COMMANDS_decompressFile, ARG_nofile, ARG_d>>) }

NextTwoFile ==
    \/ UserLine(TwoFileLines)
    \/ WriteBegin
    \/ EchoLine(TwoFileLines)
    \/ WriteEnd
    \/ StatDir
    \/ StatFile
    \/ Rename
    \/ Unlink
    \/ StreamOpen
    \/ StreamFinish

SpecTwoFile == Init /\ [][NextTwoFile]_vars

\* move-file of f, of its destination, and a delete-file of the destination
MoveLines ==
    { Line(<<COMMANDS_moveFile, ARG_f, ARG_n>>),
      Line(<<COMMANDS_moveFile, ARG_n, ARG_z>>),
      Line(<<COMMANDS_deleteFile, ARG_n>>) }

NextMove ==
    \/ UserLine(MoveLines)
    \/ WriteBegin
    \/ EchoLine(MoveLines)
    \/ WriteEnd
    \/ StatDir
    \/ StatFile
    \/ Unlink
    \/ StreamOpen
    \/ StreamFinish

SpecMove == Init /\ [][NextMove]_vars

\* compress-file of f into z and decompress-file of z into d
RoundTripLines ==
    { Line(<<COMMANDS_compressFile, ARG_f, ARG_z>>),
      Line(<<COMMANDS_decompressFile, ARG_z, ARG_d>>) }

NextRoundTrip ==
    \/ UserLine(RoundTripLines)
    \/ WriteBegin
    \/ EchoLine(RoundTripLines)
    \/ WriteEnd
    \/ StatDir
    \/ StatFile
    \/ StreamOpen
    \/ StreamFinish

SpecRoundTrip == Init /\ [][NextRoundTrip]_vars

\* list-dir of a directory that holds one directory and, once n is
\* created, two files
ListLines ==
    { Line(<<COMMANDS_listDir>>),
      Line(<<COMMANDS_createEmptyFile, ARG_n>>) }

NextList ==
    \/ UserLine(ListLines)
    \/ WriteBegin
    \/ EchoLine(ListLines)
    \/ WriteEnd
    \/ StatDir
    \/ StatFile
    \/ WriteFile
    \/ Readdir
    \/ StatEntries

SpecList == Init /\ [][NextList]_vars

\* arguments made of a prefix, a name and what follows the name
ArgPrefixes == { <<>>, <<"-">>, <<"-","-">> }
ArgNames    == { <<>>, USERNAME_COMMAND_LINE_ARG_NAME, <<"u","s","e","r">>,
                 <<"U","s","e","r","n","a","m","e">> }
ArgValues   == { <<>>, <<"=">>, <<"=","b","o","b">>, <<"=","b","=","c">>,
                 <<"=","=">>, <<"=","-","-","b">> }

StartupArguments ==
    { pre \o name \o val : pre \in ArgPrefixes, name \in ArgNames, val \in ArgValues }

\* the arguments that stand in a vector of two
PairedArguments ==
    { <<"-","-">> \o USERNAME_COMMAND_LINE_ARG_NAME \o <<"=","b","o","b">>,
      <<"-","-">> \o USERNAME_COMMAND_LINE_ARG_NAME \o <<"=","a","n","n">>,
      <<"-","-","u","s","e","r","=","b","o","b">>,
      <<"b","o","b">> }

\* process.argv with no, one and two arguments after the two paths
ArgVectors ==
    { PlainArgv }
      \cup { Append(PlainArgv, a) : a \in StartupArguments }
      \cup { PlainArgv \o <<a, b>> : a \in PairedArguments, b \in PairedArguments }

StartupLines == { Line(<<COMMANDS_exit>>), Line(<<COMMANDS_goUpper>>) }

InitStartup == \E args \in ArgVectors : Start(args)

NextStartup ==
    \/ UserLine(StartupLines)
    \/ Sigint
    \/ WriteBegin
    \/ EchoLine(StartupLines)
    \/ WriteEnd

SpecStartup == InitStartup /\ [][NextStartup]_vars

\* one line of every command: the navigation, the commands that read, a
\* create-file and a copy-file that succeed, and the other commands that
\* change files on a source that does not exist
FrameLines ==
    { Line(<<COMMANDS_exit>>),
      Line(<<COMMANDS_goUpper>>),
      Line(<<COMMANDS_changeDir, ARG_s>>),
      Line(<<COMMANDS_listDir>>),
      Line(<<COMMANDS_printFileContent, ARG_f>>),
      Line(<<COMMANDS_createEmptyFile, ARG_n>>),
      Line(<<COMMANDS_renameFile, ARG_nofile, ARG_n>>),
      Line(<<COMMANDS_copyFile, ARG_f, ARG_n>>),
      Line(<<COMMANDS_moveFile, ARG_nofile, ARG_n>>),
      Line(<<COMMANDS_deleteFile, ARG_nofile>>),
      Line(<<COMMANDS_os, ARG_EOL>>),
      Line(<<COMMANDS_getFileHash, ARG_f>>),
      Line(<<COMMANDS_compressFile, ARG_nofile, ARG_n>>),
      Line(<<COMMANDS_decompressFile, ARG_nofile, ARG_n>>) }

NextFrame ==
    \/ UserLine(FrameLines)
    \/ Sigint
    \/ WriteBegin
    \/ EchoLine({Line(<<COMMANDS_goUpper>>)})
    \/ WriteEnd
    \/ StatDir
    \/ StatFile
    \/ WriteFile
    \/ StreamOpen
    \/ StreamFinish
    \/ ReadData
    \/ ReadEnd
    \/ Digest
    \/ Readdir
    \/ StatEntries

SpecFrame == Init /\ [][NextFrame]_vars

\* change-dir with its argument in matching quotes, in quotes that differ,
\* and with a quote on one side only
QuotedDirLines ==
    { Line(<<COMMANDS_changeDir, <<"'","s","'">> >>),
      Line(<<COMMANDS_changeDir, <<"\"","s","\"">> >>),
      Line(<<COMMANDS_changeDir, <<"'","s","\"">> >>),
      Line(<<COMMANDS_changeDir, <<"'","s">> >>),
      Line(<<COMMANDS_changeDir, <<"s","'">> >>) }

NextQuote ==
    \/ UserLine(TokLines \cup QuotedDirLines)
    \/ WriteBegin
    \/ EchoLine({QuotedCopyLine})
    \/ WriteEnd
    \/ StatFile
    \/ StatDir

SpecQuote == Init /\ [][NextQuote]_vars

(***************************************************************************)
(* The earlier variant of the file manager (part_002): its dispatcher, its *)
(* change-dir, go-up, hash, compress and decompress.  write() and the line *)
(* guard are those of the later variant.                                   *)
(***************************************************************************)
\* String.prototype.split(' '): the pieces between blanks
RECURSIVE SplitAtBlank(_, _)
SplitAtBlank(str, piece) ==
    IF str = <<>> THEN <<piece>>
    ELSE IF Head(str) = " " THEN <<piece>> \o SplitAtBlank(Tail(str), <<>>)
    ELSE SplitAtBlank(Tail(str), Append(piece, Head(str)))

\* #getCommandWithParameters, part_002 lines 193-198
Earlier_getCommandWithParameters(input) ==
    LET _input == Trim(input) IN
    IF _input = <<>> THEN <<>>
    ELSE SelectSeq(SplitAtBlank(_input, <<>>), LAMBDA _el : Trim(_el) # <<>>)

\* the arity guard of the handlers: more than n tokens, or another command
Earlier_BadArity(commandWithParams, n, command) ==
    \/ Len(commandWithParams) > n
    \/ commandWithParams[1] # command

\* a handler is over: #handleUserInput prints the current directory
\* (part_002 line 190); there is no prompt
Earlier_Return(h, msgs, dir, P) ==
    LET all == msgs \o << CurrentWorkDirMsg(dir) >> IN
    /\ currentWorkDir' = dir
    /\ running' = [h EXCEPT !.pc = "done", !.todo = <<>>, !.out = h.out \o all,
                            !.cwd1 = currentWorkDir]
    /\ wq' = wq \o all
    /\ pending' = P
    /\ UNCHANGED cdFrom

\* path.resolve with an argument that is undefined throws a TypeError
Earlier_MissingArgument(h, k) == Len(h.params) < k

\* #ifAbsolutePathOK with await, part_002 lines 122-126: what the promise
\* resolves to
Earlier_ifAbsolutePathOK(absolutePath) ==
    /\ absolutePath # <<>>
    /\ isDirectory(absolutePath)
    /\ IsAbsolute(absolutePath)
    /\ StartsWithRoot(absolutePath)

\* `!this.#ifAbsolutePathOK(...)` of lines 229, 321, 350 and 374: the call is
\* not awaited, its value is a promise, and the negation of an object is false
Earlier_PathRejected(absolutePath) == FALSE

\* #goUpper, part_002 lines 212-220
Earlier_goUpper(h) ==
    IF Earlier_BadArity(h.params, 1, COMMANDS_goUpper)
    THEN Earlier_Return(h, << InvalidInputMsg >>, currentWorkDir, pending)
    ELSE IF currentWorkDir = rootWorkDir
         THEN Earlier_Return(h, <<>>, currentWorkDir, pending)
         ELSE Earlier_Return(h, <<>>, PathResolve(currentWorkDir, <<".", ".">>), pending)

\* #changeDir, part_002 lines 222-237: it holds no await
Earlier_changeDir(h) ==
    IF Earlier_BadArity(h.params, 2, COMMANDS_changeDir)
    THEN Earlier_Return(h, << InvalidInputMsg >>, currentWorkDir, pending)
    ELSE IF Earlier_MissingArgument(h, 2)
         THEN Earlier_Return(h, << OperationFailedMsg(NoErr) >>, currentWorkDir, pending)
         ELSE LET nextDir == PathResolve(currentWorkDir, h.params[2]) IN
              IF Earlier_PathRejected(nextDir)
              THEN Earlier_Return([h EXCEPT !.p1 = nextDir], << InvalidInputMsg >>,
                                  currentWorkDir, pending)
              ELSE Earlier_Return([h EXCEPT !.p1 = nextDir], <<>>, nextDir, pending)

\* #getFileHash, part_002 lines 314-321, up to `await this.#isFile`; the
\* TypeError of path.resolve is thrown outside any try block
Earlier_getFileHash(h) ==
    IF Earlier_BadArity(h.params, 2, COMMANDS_getFileHash)
    THEN Earlier_Return(h, << InvalidInputMsg >>, currentWorkDir, pending) /\ UNCHANGED status
    ELSE IF Earlier_MissingArgument(h, 2)
         THEN Crash(h, Err("ERR_INVALID_ARG_TYPE", <<>>), pending)
         ELSE /\ Await([h EXCEPT !.p1 = PathResolve(currentWorkDir, h.params[2]),
                                 !.todo = << Step("isFile", <<>>), Step("digest", <<>>) >>],
                       pending)
              /\ UNCHANGED status

\* #compressFile and #decompressFile, part_002 lines 340-350 and 364-374, up
\* to `await this.#isFile`
Earlier_codec(h, command) ==
    IF Earlier_BadArity(h.params, 3, command)
    THEN Earlier_Return(h, << InvalidInputMsg >>, currentWorkDir, pending)
    ELSE IF Earlier_MissingArgument(h, 3)
         THEN Earlier_Return(h, << OperationFailedMsg(NoErr) >>, currentWorkDir, pending)
         ELSE Await([h EXCEPT !.p1 = PathResolve(currentWorkDir, h.params[2]),
                              !.p2 = PathResolve(currentWorkDir, h.params[3]),
                              !.todo = << Step("isFile", <<>>), Step("pipe", <<>>) >>],
                    pending)

\* the commands of the lines that follow
EarlierCommands ==
    { COMMANDS_goUpper, COMMANDS_changeDir, COMMANDS_getFileHash,
      COMMANDS_compressFile, COMMANDS_decompressFile }

\* the switch of #handleUserInput, part_002 lines 132-189
Earlier_Dispatch(h) ==
    CASE h.cmd = COMMANDS_goUpper        -> Earlier_goUpper(h) /\ UNCHANGED status
      [] h.cmd = COMMANDS_changeDir      -> Earlier_changeDir(h) /\ UNCHANGED status
      [] h.cmd = COMMANDS_getFileHash    -> Earlier_getFileHash(h)
      [] h.cmd = COMMANDS_compressFile   -> Earlier_codec(h, h.cmd) /\ UNCHANGED status
      [] h.cmd = COMMANDS_decompressFile -> Earlier_codec(h, h.cmd) /\ UNCHANGED status
      [] OTHER -> Earlier_Return(h, << InvalidInputMsg >>, currentWorkDir, pending)
                    /\ UNCHANGED status

\* lines are typed while the current directory is at most one level below
\* a directory of the tree: nothing else bounds the descent of change-dir
MaxPathLen == Len(HomeDir) + 2

\* the 'line' listener and #handleUserInput, part_002 lines 37-39 and 128-132
Earlier_UserLine(Lines) ==
    \E inputs \in Lines :
        LET commandWithParams == Earlier_getCommandWithParameters(inputs) IN
        /\ InEventLoop
        /\ Len(currentWorkDir) <= MaxPathLen
        /\ BagCardinality(pending) < MaxInFlight
        /\ IF ignoreStdin
           THEN /\ lastLine' = LineEvent("user", "discarded", <<>>, <<>>)
                /\ UNCHANGED <<currentWorkDir, cdFrom, pending, running, wq, status>>
           ELSE IF commandWithParams = <<>>
                THEN /\ lastLine' = LineEvent("user", "empty", inputs, <<>>)
                     /\ UNCHANGED <<currentWorkDir, cdFrom, pending, running, wq, status>>
                ELSE /\ lastLine' = LineEvent("user", "dispatched", inputs, commandWithParams)
                     /\ Earlier_Dispatch(Handler(commandWithParams))
        /\ UNCHANGED <<argv, rootWorkDir, userName, ignoreStdin, files, wpc>>

\* #isFile answers (part_002 lines 321, 350, 374); the test of the directory
\* that follows it never rejects.  The hash goes on to read the file; the
\* codecs create their streams and return without waiting for them.
Earlier_StatFile ==
    \E h \in Awaiting("isFile") :
        LET dirs == IF h.cmd = COMMANDS_getFileHash
                    THEN { PathDirname(h.p1) }
                    ELSE { PathDirname(h.p1), PathDirname(h.p2) }
            g == [h EXCEPT !.todo = Tail(h.todo)]
        IN  /\ InEventLoop
            /\ IF ~isFile(h.p1) \/ \E d \in dirs : Earlier_PathRejected(d)
               THEN Earlier_Return(h, << InvalidInputMsg >>, currentWorkDir, Others(h))
               ELSE IF h.cmd = COMMANDS_getFileHash
                    THEN Await(g, Others(h))
                    ELSE /\ Earlier_Return(h, <<>>, currentWorkDir,
                                           Others(h) (+) SetToBag({g}))
            /\ lastLine' = NoLine
            /\ UNCHANGED <<argv, rootWorkDir, userName, ignoreStdin, files, wpc, status>>

\* getSha256Hash, part_002 lines 325-336: the digest is printed, or the read
\* stream fails and the rejection is handled nowhere
Earlier_Digest ==
    \E h \in Awaiting("digest") :
        /\ InEventLoop
        /\ IF ~isFile(h.p1)
           THEN Crash(h, ENOENT(h.p1), Others(h))
           ELSE /\ Earlier_Return(h, << Msg("none", "sha256", Err("", files[h.p1])) >>,
                                  currentWorkDir, Others(h))
                /\ UNCHANGED status
        /\ lastLine' = NoLine
        /\ UNCHANGED <<argv, rootWorkDir, userName, ignoreStdin, files, wpc>>

\* the streams of a codec run to their end behind the session (part_002
\* lines 355-358 and 379-382).  They read raw bytes and have no 'error'
\* listener.
Earlier_Pipe ==
    \E h \in Awaiting("pipe") :
        LET bytes == files[h.p1] IN
        /\ InEventLoop
        /\ IF ~isFile(h.p1) \/ ~CanWrite(h.p2)
           THEN /\ Crash(h, IF isFile(h.p1) THEN EISDIR(h.p2) ELSE ENOENT(h.p1), Others(h))
                /\ UNCHANGED files
           ELSE IF h.cmd = COMMANDS_decompressFile /\ ~IsBrotli(bytes)
                THEN /\ Crash(h, Err("Decompression failed", h.p1), Others(h))
                     /\ files' = WithFile(files, h.p2, <<>>)
                ELSE /\ files' = WithFile(files, h.p2,
                                   IF h.cmd = COMMANDS_compressFile
                                   THEN BrotliCompress(bytes) ELSE BrotliDecompress(bytes))
                     /\ pending' = Others(h)
                     /\ UNCHANGED <<currentWorkDir, cdFrom, running, wq, status>>
        /\ lastLine' = NoLine
        /\ UNCHANGED <<argv, rootWorkDir, userName, ignoreStdin, wpc>>

\* the constructor, part_002 lines 23-44: two lines are still to be written
Earlier_Init ==
    /\ argv = PlainArgv
    /\ rootWorkDir = HomeDir
    /\ currentWorkDir = HomeDir
    /\ userName = StartupUserName(PlainArgv)
    /\ ignoreStdin = FALSE
    /\ files = InitFiles
    /\ pending = EmptyBag
    /\ running = [NoHandler EXCEPT !.pc = "init"]
    /\ wq = << WelcomeMsg, CurrentWorkDirMsg(HomeDir) >>
    /\ wpc = "idle"
    /\ status = "open"
    /\ lastLine = NoLine
    /\ cdFrom = <<>>

EarlierLines ==
    { Line(<<COMMANDS_goUpper>>),
      Line(<<COMMANDS_changeDir, ARG_s>>),
      Line(<<COMMANDS_changeDir, ARG_nosuch>>),
      Line(<<COMMANDS_changeDir, ARG_up>>),
      Line(<<COMMANDS_changeDir>>),
      Line(<<COMMANDS_getFileHash, ARG_f>>),
      Line(<<COMMANDS_getFileHash, ARG_x>>),
      Line(<<COMMANDS_compressFile, ARG_f, ARG_z>>),
      Line(<<COMMANDS_decompressFile, ARG_z, ARG_d>>) }

NextEarlier ==
    \/ Earlier_UserLine(EarlierLines)
    \/ WriteBegin
    \/ EchoLine({Line(<<COMMANDS_goUpper>>)})
    \/ WriteEnd
    \/ Earlier_StatFile
    \/ Earlier_Digest
    \/ Earlier_Pipe

SpecEarlier == Earlier_Init /\ [][NextEarlier]_vars

(***************************************************************************)
(* Properties                                                              *)
(***************************************************************************)
\* p lies in the directory subtree of the root: the root's segments are the
\* first segments of p
InsideRoot(p) ==
    LET r == Segments(rootWorkDir)
        q == Segments(p)
    IN  Len(r) <= Len(q) /\ SubSeq(q, 1, Len(r)) = r

\* the lower-cased path starts with the lower-cased root
HasRootPrefix(p) == StartsWith(ToLowerCase(p), ToLowerCase(rootWorkDir))

\* this step ends the handler of a line with the given first token
Returns(command) ==
    /\ running.pc # "done"
    /\ running'.pc = "done"
    /\ running'.cmd = command

\* some line of the handler's output is an error line
ShowsError(h) == \E i \in 1..Len(h.out) : h.out[i].type = "error"

\* C1: in every reachable state currentDir is an absolute path whose
\* lower-cased string starts with the lower-cased rootDir string.
C1_CurrentDirUnderRoot ==
    IsAbsolute(currentWorkDir) /\ HasRootPrefix(currentWorkDir)

\* C2: no command creates, overwrites, renames or removes a file outside the
\* directory subtree of rootDir: every file outside it is there, with its
\* content, as it was at the start, and no other file is outside it.
C2_NoMutationOutsideRoot ==
    \A p \in DOMAIN files \cup DOMAIN InitFiles :
        ~InsideRoot(p) =>
            /\ p \in DOMAIN files
            /\ p \in DOMAIN InitFiles
            /\ files[p] = InitFiles[p]

\* the validations the handler has been through whose path does not start
\* with the root, by their position in h.checks
ChecksOutsideRoot(h) ==
    { i \in 1..Len(h.checks) : ~HasRootPrefix(h.checks[i].path) }

FirstFailingCheck(c) ==
    LET dir == IF c.flags = "dir" THEN c.path ELSE PathDirname(c.path) IN
    \/ c.flags = "exists" /\ c.path \notin DOMAIN files
                          /\ c.error = ERR_NoFile(c.path)
    \/ c.flags = "absent" /\ c.path \in DOMAIN files
                          /\ c.error = ERR_FileExists(c.path)
    \/ dir \notin Dirs /\ c.error = ERR_NoDir(dir)
    \/ dir \in Dirs    /\ c.error = ERR_OutsideRoot

C4_ChangeDirIffDirectoryInsideRoot ==
    [][ (Returns(COMMANDS_changeDir) /\ Len(running'.params) = 2) =>
          IF isDirectory(running'.p1) /\ InsideRoot(running'.p1)
          THEN currentWorkDir' = running'.p1
          ELSE currentWorkDir' = currentWorkDir /\ ShowsError(running') ]_vars

\* C5: go-up is a no-op when currentDir equals rootDir and otherwise sets
\* currentDir to its parent; so a go-up that follows a successful change-dir
\* from D into a direct child of D returns currentDir to D.
C5_GoUpReturnsToParent ==
    [][ (Returns(COMMANDS_goUpper) /\ Len(running'.params) = 1) =>
          /\ IF currentWorkDir = rootWorkDir
             THEN currentWorkDir' = currentWorkDir
             ELSE currentWorkDir' = PathDirname(currentWorkDir)
          /\ cdFrom # <<>> => currentWorkDir' = cdFrom ]_vars

\* the number of arguments each command takes
ArgCount(command) ==
    CASE command \in {COMMANDS_exit, COMMANDS_goUpper, COMMANDS_listDir} -> 0
      [] command \in {COMMANDS_renameFile, COMMANDS_copyFile, COMMANDS_moveFile,
                      COMMANDS_compressFile, COMMANDS_decompressFile}    -> 2
      [] OTHER                                                           -> 1

KnownCommands ==
    { COMMANDS_exit, COMMANDS_goUpper, COMMANDS_changeDir, COMMANDS_listDir,
      COMMANDS_printFileContent, COMMANDS_createEmptyFile, COMMANDS_renameFile,
      COMMANDS_copyFile, COMMANDS_moveFile, COMMANDS_deleteFile, COMMANDS_os,
      COMMANDS_getFileHash, COMMANDS_compressFile, COMMANDS_decompressFile }

\* the tokens name no known command, or not as many arguments as it takes,
\* or an os parameter that is not recognised
Malformed(tokens) ==
    \/ tokens[1] \notin KnownCommands
    \/ Len(tokens) - 1 # ArgCount(tokens[1])
    \/ tokens[1] = COMMANDS_os /\ tokens[2] \notin OS_COMMANDS

\* C6: a line with a wrong number of arguments for its command, with an
\* unrecognised os parameter or with an unknown first token yields the
\* 'Invalid input' message and no 'Operation failed' message, followed by the
\* status line and the prompt, and leaves currentDir, the session status, the
\* file system and the suspended commands unchanged.
C6_MalformedLineIsInvalidInput ==
    [][ (lastLine'.result = "dispatched" /\ Malformed(lastLine'.tokens)) =>
          /\ running'.pc = "done"
          /\ running'.params = lastLine'.tokens
          /\ running'.out = << InvalidInputMsg, CurrentWorkDirMsg(currentWorkDir),
                               PromptMsg >>
          /\ running'.err = NoErr
          /\ UNCHANGED <<currentWorkDir, status, files, pending>> ]_vars

\* a change-dir with two arguments has been answered while another command
\* was suspended
C6_Witness ==
    /\ lastLine.result = "dispatched"
    /\ lastLine.tokens = <<COMMANDS_changeDir, ARG_s, ARG_s>>
    /\ running.pc = "done"
    /\ running.out[1] = InvalidInputMsg
    /\ pending # EmptyBag

\* the commands of one path argument
OnePathCommands ==
    { COMMANDS_changeDir, COMMANDS_printFileContent, COMMANDS_createEmptyFile,
      COMMANDS_deleteFile, COMMANDS_getFileHash }

\* C7: a command whose path argument is empty after unwrapping fails with
\* the error 'Path ... is not set'.
C7_EmptyPathIsInvalidArgument ==
    ( /\ running.pc = "done"
      /\ running.cmd \in OnePathCommands
      /\ Len(running.params) = 2
      /\ unbraketString(running.params[2]) = <<>> )
    => running.err \in {ERR_FileNotSet, ERR_DirNotSet}

\* C8: a line event received while inputSuppressed is true is discarded: no
\* handler is dispatched, nothing is queued for output, and currentDir, the
\* file system and the session status stay as they are.
C8_SuppressedLineIsDiscarded ==
    [][ (ignoreStdin /\ lastLine'.src # "none") =>
          /\ lastLine'.result = "discarded"
          /\ UNCHANGED <<currentWorkDir, files, pending, running, wq, status>> ]_vars

\* a line raised by the Writer's own write has been discarded while a
\* command is suspended at an await
C8_Witness ==
    /\ lastLine = LineEvent("write", "discarded", <<>>, <<>>)
    /\ ignoreStdin
    /\ pending # EmptyBag

\* C9: inputSuppressed is true only inside a write call, so it is false
\* whenever control is back in the event loop, and a user line that arrives
\* while another command is pending is never discarded.
C9_SuppressedOnlyInsideWrite ==
    /\ ignoreStdin => wpc \in {"begun", "echoed"}
    /\ InEventLoop => ~ignoreStdin
    /\ lastLine.src = "user" => lastLine.result # "discarded"

\* a user line has been dispatched while another command was suspended
C9_Witness ==
    /\ lastLine.src = "user" /\ lastLine.result = "dispatched"
    /\ BagCardinality(pending) = 2
    /\ ~ignoreStdin

\* the handler's output ends with the status line and the prompt, each
\* printed once
EndsWithStatusAndPrompt(out) ==
    LET n == Len(out) IN
    /\ n >= 2
    /\ out[n - 1].type = "currDirMessage"
    /\ out[n] = PromptMsg
    /\ \A i \in 1..(n - 2) : out[i].type # "currDirMessage" /\ out[i] # PromptMsg

\* C10: once every I/O step of the handler of a dispatched line has
\* completed, with success or with an error, the status line and then the
\* prompt have been printed, once, after all other output of the command.
C10_StatusAndPromptAfterEveryCommand ==
    (running.pc \in {"done", "crashed", "closing"} /\ running.params # <<>>)
        => EndsWithStatusAndPrompt(running.out)

\* C11: the session ends only by the exit command or the interrupt signal;
\* no failure of a command, a stream or codec error included, ends it.
C11_OnlyExitOrInterruptTerminates ==
    /\ status \in {"open", "closed"}
    /\ running.pc # "crashed"
    /\ running.pc = "closing" =>
           running.cmd \in {COMMANDS_exit, <<"S","I","G","I","N","T">>}

\* the commands that stream a file
StreamCommands ==
    { COMMANDS_printFileContent, COMMANDS_copyFile, COMMANDS_moveFile,
      COMMANDS_getFileHash, COMMANDS_compressFile, COMMANDS_decompressFile }

\* the handler ended on a failure of its read, codec or write stage
StreamStageFailed(h) ==
    /\ h.cmd \in StreamCommands
    /\ h.pc \in {"done", "crashed"}
    /\ \E p \in {h.p1, h.p2} :
           h.err \in {ENOENT(p), EISDIR(p), Err("Decompression failed", p)}

\* C12: when the read, the codec or the write stage of a streaming command
\* fails, the command finishes and exactly one 'Operation failed' line, with
\* the message of the failure, is shown for it.
C12_StreamFailureIsOneErrorLine ==
    StreamStageFailed(running) =>
        /\ running.pc = "done"
        /\ Cardinality({ i \in 1..Len(running.out) :
                           running.out[i].type = "error" }) = 1
        /\ \E i \in 1..Len(running.out) :
               running.out[i] = OperationFailedMsg(running.err)

\* the handlers in flight and the one whose code runs or has just ended
Handlers == BagToSet(pending) \cup {running}

\* the list-dir handlers to which fsp.readdir has answered
ListDirsRead ==
    { h \in Handlers : /\ h.cmd = COMMANDS_listDir
                       /\ Len(h.params) = 1
                       /\ h.pc \in {"run", "done"}
                       /\ Len(h.todo) < 2 }

\* C13: commands are not serialized; a list-dir lists the directory that was
\* current when its line was dispatched, also when a change-dir issued
\* before it takes effect while the list-dir is still in flight.
C13_ListDirReadsDirAtDispatch ==
    \A h \in ListDirsRead :
        /\ h.p1 = h.cwd0
        /\ { h.entries[i].Name : i \in 1..Len(h.entries) }
             = { BaseName(p) : p \in ChildrenOf(h.cwd0) }

\* a change-dir has just taken effect while a list-dir that was dispatched
\* after it, with the change-dir suspended, has read the directory that was
\* current before
C13_Witness ==
    /\ running.cmd = COMMANDS_changeDir
    /\ running.pc = "done"
    /\ running.err = NoErr
    /\ currentWorkDir = running.p1
    /\ currentWorkDir # running.cwd0
    /\ \E h \in ListDirsRead :
           /\ h \in BagToSet(pending)
           /\ h.afterCd
           /\ h.p1 = running.cwd0

\* C14: the exit command without arguments and the interrupt signal shut
\* down alike, whatever is in flight: the farewell is the only thing
\* written, the session then closes with success, and nothing is printed
\* or done after it.
C14_SameShutdown ==
    [][ /\ (running.pc # "closing" /\ running'.pc = "closing") =>
              /\ running'.params \in { <<COMMANDS_exit>>, <<>> }
              /\ running'.out = << GoodbyeMsg >>
              /\ wq' = << GoodbyeMsg >>
              /\ UNCHANGED <<pending, status, currentWorkDir, files>>
        /\ running.pc = "closing" =>
              /\ wq = << GoodbyeMsg >>
              /\ \/ UNCHANGED <<running, wq, pending, status>>
                 \/ wpc = "echoed" /\ status' = "closed" /\ wq' = <<>>
                                   /\ pending' = pending
        /\ status' = "closed" => status = "open" /\ running.pc = "closing"
        /\ status # "open" => UNCHANGED vars ]_vars

\* the exit command has written the farewell while a command is in flight
C14_Witness ==
    /\ running.pc = "closing"
    /\ running.cmd = COMMANDS_exit
    /\ wpc = "echoed"
    /\ pending # EmptyBag

\* the line without its leading and trailing blanks
Stripped(line) ==
    LET inked == { i \in 1..Len(line) : line[i] # " " } IN
    IF inked = {} THEN <<>>
    ELSE SubSeq(line, CHOOSE i \in inked : \A j \in inked : i <= j,
                      CHOOSE i \in inked : \A j \in inked : j <= i)

\* position i of t holds a blank outside quotes: the quote characters before
\* it are even in number
IsSeparator(t, i) ==
    /\ t[i] = " "
    /\ Cardinality({ j \in 1..i : t[j] \in {"'", "\""} }) % 2 = 0

\* the maximal runs of positions of t that hold no separator, in order
MaximalRuns(t) ==
    LET starts == { a \in 1..Len(t) :
                      ~IsSeparator(t, a) /\ (a = 1 \/ IsSeparator(t, a - 1)) }
        NthStart(k) == CHOOSE a \in starts :
                           Cardinality({ b \in starts : b < a }) = k - 1
        RunEnd(a) == CHOOSE b \in a..Len(t) :
                         /\ \A j \in a..b : ~IsSeparator(t, j)
                         /\ b = Len(t) \/ IsSeparator(t, b + 1)
    IN  [k \in 1..Cardinality(starts) |-> SubSeq(t, NthStart(k), RunEnd(NthStart(k)))]

\* C15: the tokens of a line are the maximal runs of characters between the
\* blanks outside quotes of the line without its leading and trailing
\* blanks; no token is empty; and cp 'a b.txt' c.txt unwraps to the tokens
\* cp, a b.txt, c.txt.
C15_TokensAreMaximalRuns ==
    lastLine.result \in {"dispatched", "empty"} =>
        /\ lastLine.tokens = MaximalRuns(Stripped(lastLine.text))
        /\ \A i \in 1..Len(lastLine.tokens) : lastLine.tokens[i] # <<>>
        /\ lastLine.text = QuotedCopyLine =>
               [i \in 1..Len(lastLine.tokens) |-> unbraketString(lastLine.tokens[i])]
                 = << <<"c","p">>, <<"a"," ","b",".","t","x","t">>,
                      <<"c",".","t","x","t">> >>

\* a line with a quoted blank and doubled blanks outside quotes has been
\* tokenized
C15_Witness ==
    /\ lastLine.result = "dispatched"
    /\ lastLine.text = <<"\"", " ", "\"", " ">>
    /\ lastLine.tokens = << <<"\"", " ", "\"">> >>

\* C15 as stated: the tokens are the maximal runs between the blanks outside
\* quotes of the line as typed, every blank inside quotes kept.
C15_TokensAreRunsOfTypedLine ==
    lastLine.result \in {"dispatched", "empty"} =>
        /\ lastLine.tokens = MaximalRuns(lastLine.text)
        /\ \A i \in 1..Len(lastLine.tokens) : lastLine.tokens[i] # <<>>

\* C16: an empty or all-blank line has no tokens and is ignored: no handler
\* runs, nothing is queued for output, and currentDir, the file system and
\* the session stay as they are.
C16_BlankLineIsIgnored ==
    [][ (lastLine'.src = "user"
           /\ \A i \in 1..Len(lastLine'.text) : lastLine'.text[i] = " ") =>
          /\ lastLine'.result = "empty"
          /\ lastLine'.tokens = <<>>
          /\ UNCHANGED <<currentWorkDir, files, pending, running, wq, status,
                         ignoreStdin>> ]_vars

\* a line of two blanks has been ignored while a command is in flight
C16_Witness ==
    /\ lastLine = LineEvent("user", "empty", <<" ", " ">>, <<>>)
    /\ pending # EmptyBag

\* this step resumes the suspended handler h
Resumed(h) ==
    /\ h \in BagToSet(pending)
    /\ CopiesIn(h, pending') < CopiesIn(h, pending)

\* C17: a create-file that ends on a target that is neither a file nor a
\* directory, in an existing directory inside root, has succeeded and left a
\* zero-length file there; a create-file whose target is a file when it is
\* looked up fails with AlreadyExists; and no step changes or removes the
\* content of an existing file.
C17_CreateThenAlreadyExists ==
    [][ /\ Returns(COMMANDS_createEmptyFile) /\ Len(running'.params) = 2 =>
            LET p == running'.p1 IN
            /\ (/\ ~isFile(p) /\ ~isDirectory(p)
                /\ isDirectory(PathDirname(p)) /\ InsideRoot(PathDirname(p)))
               => /\ running'.err = NoErr
                  /\ ~ShowsError(running')
                  /\ files' = WithFile(files, p, <<>>)
            /\ (isFile(p) /\ \E h \in Awaiting("isFile") : Resumed(h))
               => /\ running'.err = ERR_FileExists(p)
                  /\ running'.out[1] = OperationFailedMsg(ERR_FileExists(p))
                  /\ files' = files
        /\ \A q \in DOMAIN files : q \in DOMAIN files' /\ files'[q] = files[q]
      ]_vars

\* the file n has been created by a create-file and a later create-file of n
\* has failed with AlreadyExists, the file still empty
C17_Witness ==
    /\ running.cmd = COMMANDS_createEmptyFile
    /\ running.pc = "done"
    /\ running.p1 = PathResolve(HomeDir, ARG_n)
    /\ running.err = ERR_FileExists(running.p1)
    /\ isFile(running.p1) /\ files[running.p1] = <<>>
    /\ pending = EmptyBag

\* the file the handler creates
Destination(h) == IF h.cmd = COMMANDS_createEmptyFile THEN h.p1 ELSE h.p2

\* the steps that create or replace the destination of a command
DestinationWrites == {"writeFile", "rename", "open"}

\* C18: a command that reaches the step which creates its destination while
\* the destination is a file fails with AlreadyExists and leaves every file
\* as it is.
C18_ExistingDestinationPreserved ==
    [][ \A h \in BagToSet(pending) :
          (/\ Resumed(h)
           /\ Head(h.todo).op \in DestinationWrites
           /\ isFile(Destination(h)))
          => /\ files' = files
             /\ running'.pc = "done"
             /\ running'.err = ERR_FileExists(Destination(h)) ]_vars

TwoFileCommands ==
    { COMMANDS_renameFile, COMMANDS_copyFile, COMMANDS_moveFile,
      COMMANDS_compressFile, COMMANDS_decompressFile }

\* both validations of the two-argument handler h have passed: the source as
\* an existing file, the destination as an absent one
BothValidated(h) ==
    h.checks = << [path |-> h.p1, flags |-> "exists", error |-> NoErr],
                  [path |-> h.p2, flags |-> "absent", error |-> NoErr] >>

\* C19: a step of a two-argument command changes the file system only after
\* the validations of its source and of its destination have both passed, and
\* a step in which a validation fails changes no file.
C19_ValidationPrecedesMutation ==
    [][ \A h \in BagToSet(pending) :
          (Resumed(h) /\ h.cmd \in TwoFileCommands /\ Len(h.params) = 3) =>
             /\ files' # files => BothValidated(h)
             /\ ~BothValidated(h) => files' = files
             /\ (running'.pc = "done" /\ ~BothValidated(running')) =>
                    /\ running'.err # NoErr
                    /\ files' = files ]_vars

\* a move whose source passed and whose destination failed validation has
\* ended, and no file has changed
C19_Witness ==
    /\ running.cmd = COMMANDS_moveFile
    /\ running.pc = "done"
    /\ Len(running.checks) = 2
    /\ running.checks[1].error = NoErr
    /\ running.checks[2] = [path |-> running.p2, flags |-> "absent",
                            error |-> ERR_NoDir(PathDirname(running.p2))]
    /\ files = InitFiles

\* C20: a step of a move-file that removes the source is the step after the
\* end of its copy, and leaves the destination holding the content the
\* source had; a move-file that ends in an error leaves its source as it is.
C20_SourceRemovedAfterCompleteCopy ==
    [][ \A h \in BagToSet(pending) :
          (Resumed(h) /\ h.cmd = COMMANDS_moveFile /\ Len(h.params) = 3) =>
             /\ (isFile(h.p1) /\ h.p1 \notin DOMAIN files') =>
                    /\ Head(h.todo).op = "unlink"
                    /\ h.p2 \in DOMAIN files'
                    /\ files'[h.p2] = files[h.p1]
             /\ (isFile(h.p1) /\ running'.pc \in {"done", "crashed"}
                   /\ running'.err # NoErr) =>
                    /\ h.p1 \in DOMAIN files'
                    /\ files'[h.p1] = files[h.p1] ]_vars

\* C21: when a copy-file ends without error the destination holds exactly
\* the bytes of the source, and the source is still there with its bytes.
C21_CopyIsByteExact ==
    [][ (/\ Returns(COMMANDS_copyFile)
         /\ Len(running'.params) = 3
         /\ running'.err = NoErr
         /\ isFile(running'.p1)) =>
           /\ running'.p1 \in DOMAIN files'
           /\ files'[running'.p1] = files[running'.p1]
           /\ running'.p2 \in DOMAIN files'
           /\ files'[running'.p2] = files[running'.p1] ]_vars

\* C22: z is written by compress-file of f only, so when decompress-file of
\* z into d ends without error, d holds exactly the bytes of f.
C22_CompressDecompressRoundTrip ==
    [][ (/\ Returns(COMMANDS_decompressFile)
         /\ running'.err = NoErr
         /\ running'.p1 = PathResolve(HomeDir, ARG_z)
         /\ running'.p2 = PathResolve(HomeDir, ARG_d)) =>
           /\ running'.p2 \in DOMAIN files'
           /\ files'[running'.p2] = files[PathResolve(HomeDir, ARG_f)] ]_vars

\* the code unit order of the letters: upper case before lower case
CodeUnitOrder == UpperCaseLetters \o LowerCaseLetters

CodeUnit(c) == CHOOSE i \in 1..Len(CodeUnitOrder) : CodeUnitOrder[i] = c

\* a < b for two names made of letters
RECURSIVE NameLess(_, _)
NameLess(a, b) ==
    IF b = <<>> THEN FALSE
    ELSE IF a = <<>> THEN TRUE
    ELSE IF Head(a) = Head(b) THEN NameLess(Tail(a), Tail(b))
    ELSE CodeUnit(Head(a)) < CodeUnit(Head(b))

\* C23: the table of a list-dir that has ended holds entries of the listed
\* directory, each once, the directories before the files, and the names
\* ascending within the directories and within the files.
C23_ListDirIsSorted ==
    (/\ running.cmd = COMMANDS_listDir
     /\ Len(running.params) = 1
     /\ running.pc = "done") =>
       LET e == running.entries IN
       /\ \A i \in 1..Len(e) :
            \E p \in ChildrenOf(running.cwd0) : BaseName(p) = e[i].Name
       /\ \A i, j \in 1..Len(e) : i < j =>
            /\ e[i].Name # e[j].Name
            /\ ~(~e[i].isDirectory /\ e[j].isDirectory)
            /\ e[i].isDirectory = e[j].isDirectory
                 => NameLess(e[i].Name, e[j].Name)

\* the arguments after the program path and the script path
GivenArguments == SubSeq(argv, 3, Len(argv))

UserNameOption == <<"-","-","u","s","e","r","n","a","m","e","=">>

\* the one argument is --username=<value>, the value not empty and free of "="
IsUserNameArgument(a) ==
    /\ StartsWith(a, UserNameOption)
    /\ Len(a) > Len(UserNameOption)
    /\ \A i \in Len(UserNameOption) + 1 .. Len(a) : a[i] # "="

\* C24: whatever the arguments, the session exists; the user name is the
\* value of the single well-formed --username=<value> argument, and
\* 'Unknown' in every other case.
C24_UserNameFromArguments ==
    /\ status \in {"open", "closed"}
    /\ running.pc = "init" =>
         /\ status = "open"
         /\ currentWorkDir = HomeDir /\ rootWorkDir = HomeDir
    /\ IF Len(GivenArguments) = 1 /\ IsUserNameArgument(GivenArguments[1])
       THEN userName = SubSeq(GivenArguments[1], Len(UserNameOption) + 1,
                              Len(GivenArguments[1]))
       ELSE userName = <<"U","n","k","n","o","w","n">>

\* the session of the user bob is open and has printed its three lines
C24_Witness ==
    /\ userName = <<"b","o","b">>
    /\ Len(GivenArguments) = 1
    /\ status = "open" /\ wq = <<>> /\ wpc = "idle"

NavigationCommands == { COMMANDS_changeDir, COMMANDS_goUpper }

\* C25: a step that changes currentDir is the return of a change-dir or of a
\* go-up without error, and no step changes rootDir or userName.
C25_OnlyNavigationMovesCurrentDir ==
    [][ /\ currentWorkDir' # currentWorkDir =>
             /\ running'.cmd \in NavigationCommands
             /\ running'.pc = "done"
             /\ running'.err = NoErr
             /\ running' # running
        /\ (running'.pc \in {"done", "closing", "crashed"}
              /\ running' # running
              /\ running'.cmd \notin NavigationCommands) =>
             currentWorkDir' = currentWorkDir
        /\ rootWorkDir' = rootWorkDir
        /\ userName' = userName ]_vars

\* a copy-file has ended in the directory s that a change-dir moved to
C25_Witness ==
    /\ running.cmd = COMMANDS_copyFile
    /\ running.pc = "done"
    /\ running.cwd0 = PathResolve(HomeDir, ARG_s)
    /\ currentWorkDir = running.cwd0

QuoteCharacters == { "'", "\"" }

\* the number of quote characters, of either kind, among the first n of t
QuotesIn(t, n) == Cardinality({ j \in 1..n : t[j] \in QuoteCharacters })

\* the characters of t that are no separators, in order
RECURSIVE KeptFrom(_, _)
KeptFrom(t, i) ==
    IF i > Len(t) THEN <<>>
    ELSE (IF IsSeparator(t, i) THEN <<>> ELSE << t[i] >>) \o KeptFrom(t, i + 1)

\* the token without its first and last character when the first is a quote
\* character and the last the same character, else the token
Unwrapped(token) ==
    IF /\ token # <<>>
       /\ token[1] \in QuoteCharacters
       /\ token[Len(token)] = token[1]
    THEN SubSeq(token, 2, Len(token) - 1)
    ELSE token

\* C26: a blank stands inside a token exactly after an odd number of quote
\* characters of either kind, every token but the last holds an even number of
\* them, a line with an unmatched quote is tokenized like any other, and
\* un-wrapping strips a token only of a first and last character that are
\* the same quote character.
C26_QuotesToggleAndUnwrap ==
    /\ status = "open"
    /\ lastLine.src = "user" => lastLine.result \in {"dispatched", "empty"}
    /\ lastLine.result \in {"dispatched", "empty"} =>
         LET tokens == lastLine.tokens IN
         /\ JoinWith(tokens, <<>>) = KeptFrom(Stripped(lastLine.text), 1)
         /\ \A k \in 1..Len(tokens) :
              /\ \A j \in 1..Len(tokens[k]) :
                   tokens[k][j] = " " => QuotesIn(tokens[k], j) % 2 = 1
              /\ k < Len(tokens) => QuotesIn(tokens[k], Len(tokens[k])) % 2 = 0
              /\ unbraketString(tokens[k]) = Unwrapped(tokens[k])
    /\ \A h \in Handlers :
         (h.cmd = COMMANDS_changeDir /\ Len(h.params) = 2) =>
            h.p1 = PathResolve(h.cwd0, Unwrapped(h.params[2]))

\* a change-dir whose argument opens with ' and ends with " has been
\* validated under its name with the quotes, while a change-dir whose
\* argument stands in double quotes is suspended with the name without them
C26_Witness ==
    /\ running.cmd = COMMANDS_changeDir
    /\ running.params[2] = <<"'","s","\"">>
    /\ running.pc = "done"
    /\ running.err = ERR_NoDir(PathResolve(HomeDir, <<"'","s","\"">>))
    /\ \E h \in BagToSet(pending) :
          /\ h.params[2] = <<"\"","s","\"">>
          /\ h.p1 = PathResolve(HomeDir, ARG_s)

\* C27: a change-dir that ends without error leaves as current directory the
\* path resolved from its argument against the current directory of its
\* dispatch, whatever the current directory has become since.
C27_ChangeDirAssignsPathOfDispatch ==
    [][ (/\ Returns(COMMANDS_changeDir)
         /\ Len(running'.params) = 2
         /\ running'.err = NoErr) =>
           /\ currentWorkDir' = PathResolve(running'.cwd0, Unwrapped(running'.params[2]))
           /\ running'.cwd1 = currentWorkDir ]_vars

\* a change-dir has ended that found the current directory changed since its
\* dispatch, and the current directory is the path of its dispatch, not the
\* one its argument has from the directory it found
C27_Witness ==
    /\ running.cmd = COMMANDS_changeDir
    /\ running.pc = "done"
    /\ running.err = NoErr
    /\ running.cwd1 # running.cwd0
    /\ currentWorkDir = PathResolve(running.cwd0, Unwrapped(running.params[2]))
    /\ currentWorkDir # PathResolve(running.cwd1, Unwrapped(running.params[2]))

\* C28: in the table of a list-dir that has ended an entry has the kind
\* directory exactly when it is a directory inside the directory that was
\* enumerated.
C28_KindsOfEnumeratedDirectory ==
    (/\ running.cmd = COMMANDS_listDir
     /\ Len(running.params) = 1
     /\ running.pc = "done") =>
       \A i \in 1..Len(running.entries) :
          running.entries[i].isDirectory
            <=> isDirectory(PathJoin(running.p1, running.entries[i].Name))

\* a handler of the earlier variant returns in this step
EarlierReturns(command) ==
    /\ running' # running
    /\ running'.pc = "done"
    /\ running'.cmd = command

\* C29: in the earlier variant, change-dir assigns currentDir, and hash,
\* compress and decompress go on past their validation, only when
\* #ifAbsolutePathOK holds of the directory: a change-dir whose target is
\* outside rootDir or does not exist shows 'Invalid input' and leaves
\* currentDir as it was; a digest is printed only of a file in an accepted
\* directory; a codec writes its destination only when both directories are
\* accepted.
C29_EarlierGuardsByAbsolutePathOK ==
    [][ /\ (EarlierReturns(COMMANDS_changeDir) /\ Len(running'.params) = 2) =>
             LET nextDir == PathResolve(currentWorkDir, running'.params[2]) IN
             IF Earlier_ifAbsolutePathOK(nextDir)
             THEN currentWorkDir' = nextDir
             ELSE /\ currentWorkDir' = currentWorkDir
                  /\ running'.out[1] = InvalidInputMsg
        /\ (EarlierReturns(COMMANDS_getFileHash) /\ ~ShowsError(running')) =>
             Earlier_ifAbsolutePathOK(PathDirname(running'.p1))
        /\ files' # files =>
             \A h \in Awaiting("pipe") :
                 h \notin BagToSet(pending') =>
                     /\ Earlier_ifAbsolutePathOK(PathDirname(h.p1))
                     /\ Earlier_ifAbsolutePathOK(PathDirname(h.p2))
      ]_vars

====
